---- MODULE Spec2Model ----
(***************************************************************************)
(* A model of benford.py: the lookup tables, the expected distributions    *)
(* (First, Second, LastTwo), the preparation of the data (Base), the       *)
(* digit tests (Test) and the Benford analysis object with its methods,    *)
(* and the Source frame with the module's functions that work on it.       *)
(*                                                                         *)
(* Numbers.  An entry of the sequence is an integer held in an int64 or a  *)
(* float64 column.  It is modelled by its sign and the string of its       *)
(* decimal digits, most significant first, because the digit tests read    *)
(* magnitudes of fifteen digits that no machine integer of the model       *)
(* checker holds.  NaN, which pandas puts where a shifted or re-aligned    *)
(* column has no value, is a value of its own.  The modelled entries are   *)
(* integer-valued and below 10^15, hence below 2^53, where float64         *)
(* arithmetic on them is exact; the one inexact float64 operation the      *)
(* code applies to them, np.log10, is modelled with its rounding.          *)
(***************************************************************************)
EXTENDS Integers, Sequences, FiniteSets, TLC

\* session:  the Benford object, once constructed
\* raised:   the exception the last call ended in, "none" when it returned
\* computed: what the last call had worked out when it raised ({} when it
\*           returned)
\* call:     the call the run began with, Benford(...) or a function of the
\*           module, with what it was given and what it returned; of the
\*           data Benford(...) was given, its container and its dtype
VARIABLES session, raised, computed, call

vars == <<session, raised, computed, call>>

-----------------------------------------------------------------------------
(* Bounds of the model *)

\* longest sequence of entries given to Benford
MaxLen == 2

\* most calls of sec_order or summation on one Benford object
MaxCalls == 1

\* longest series given to duplicates
MaxDupLen == 6

-----------------------------------------------------------------------------
(* Decimal digit strings *)

Zeros(k) == [i \in 1..k |-> 0]

Nines(k) == [i \in 1..k |-> 9]

RECURSIVE Digits(_)
\* the decimal string of a natural number, "" for 0
Digits(n) == IF n = 0 THEN <<>> ELSE Append(Digits(n \div 10), n % 10)

RECURSIVE ToNat(_)
\* the number a short decimal string denotes
ToNat(m) == IF m = <<>> THEN 0
            ELSE 10 * ToNat(SubSeq(m, 1, Len(m) - 1)) + m[Len(m)]

RECURSIVE StripZeros(_)
StripZeros(m) == IF m # <<>> /\ m[1] = 0 THEN StripZeros(Tail(m)) ELSE m

\* a < b on magnitudes without leading zeros
MagLess(a, b) ==
    \/ Len(a) < Len(b)
    \/ /\ Len(a) = Len(b)
       /\ \E i \in 1..Len(a) : /\ a[i] < b[i]
                               /\ \A j \in 1..(i - 1) : a[j] = b[j]

\* the digit of m that stands k places from the right (0 when there is none)
DigitFromRight(m, k) == IF k <= Len(m) THEN m[Len(m) + 1 - k] ELSE 0

RECURSIVE AddFrom(_, _, _, _)
AddFrom(a, b, k, carry) ==
    IF k > Len(a) /\ k > Len(b)
    THEN IF carry = 0 THEN <<>> ELSE <<carry>>
    ELSE LET s == DigitFromRight(a, k) + DigitFromRight(b, k) + carry
         IN  Append(AddFrom(a, b, k + 1, s \div 10), s % 10)

MagAdd(a, b) == AddFrom(a, b, 1, 0)

RECURSIVE SubFrom(_, _, _, _)
SubFrom(a, b, k, borrow) ==
    IF k > Len(a) THEN <<>>
    ELSE LET s == DigitFromRight(a, k) - DigitFromRight(b, k) - borrow
         IN  Append(SubFrom(a, b, k + 1, IF s < 0 THEN 1 ELSE 0),
                    IF s < 0 THEN s + 10 ELSE s)

\* a - b for a >= b
MagSub(a, b) == StripZeros(SubFrom(a, b, 1, 0))

\* m * 10^k
Scale(m, k) == IF m = <<>> THEN <<>> ELSE m \o Zeros(k)

\* m // 10^k, for k >= 0
FloorDivPow10(m, k) == IF k >= Len(m) THEN <<>> ELSE SubSeq(m, 1, Len(m) - k)

\* m % 10^k, as a number
ModPow10(m, k) == ToNat(SubSeq(m, IF Len(m) > k THEN Len(m) - k + 1 ELSE 1, Len(m)))

-----------------------------------------------------------------------------
(* Entries: signed integers, and NaN *)

NaN == [nan |-> TRUE, neg |-> FALSE, mag |-> <<>>]

Num(neg, mag) == [nan |-> FALSE, neg |-> neg /\ mag # <<>>, mag |-> mag]

\* the entry of a small integer
V(n) == Num(n < 0, Digits(IF n < 0 THEN -n ELSE n))

IsZero(x) == ~x.nan /\ x.mag = <<>>

\* x > 0, x < 0, x != 0 as pandas evaluates them (every comparison with NaN
\* is False, except != which is True)
Gt0(x) == ~x.nan /\ ~x.neg /\ x.mag # <<>>

Lt0(x) == ~x.nan /\ x.neg

Ne0(x) == x.nan \/ x.mag # <<>>

\* Series.abs()
AbsVal(x) == IF x.nan THEN x ELSE Num(FALSE, x.mag)

\* x < y on numbers
NumLess(x, y) ==
    IF x.neg /\ ~y.neg THEN TRUE
    ELSE IF ~x.neg /\ y.neg THEN FALSE
    ELSE IF x.neg THEN MagLess(y.mag, x.mag)
    ELSE MagLess(x.mag, y.mag)

\* x - y; NaN when either is NaN
Minus(x, y) ==
    IF x.nan \/ y.nan THEN NaN
    ELSE IF x.neg # y.neg /\ x.mag # <<>> /\ y.mag # <<>>
         THEN Num(x.neg, MagAdd(x.mag, y.mag))
    ELSE IF x.mag = <<>> THEN Num(~y.neg, y.mag)
    ELSE IF y.mag = <<>> THEN x
    ELSE IF MagLess(x.mag, y.mag) THEN Num(~x.neg, MagSub(y.mag, x.mag))
    ELSE Num(x.neg, MagSub(x.mag, y.mag))

-----------------------------------------------------------------------------
(* Sequences *)

\* the number of rows of a frame that hold v in the column col
CountEq(base, col, v) == Cardinality({i \in 1..Len(base) : base[i][col] = v})

Range(s) == {s[i] : i \in 1..Len(s)}

-----------------------------------------------------------------------------
(* Module constants: lines 32-80.  A confidence level is named by the text  *)
(* of its key; a critical value v is held in thousandths, as <<1000 v>>,    *)
(* and the value None as <<>>.                                              *)

None == <<>>

\* the keys of digs_dict, in the order the dict yields them
TestKeys == <<1, 2, 3, 22, -2>>

digs_dict == (1 :> "F1D") @@ (2 :> "F2D") @@ (3 :> "F3D") @@ (22 :> "SD") @@ (-2 :> "L2D")

sec_order_dict == [key \in DOMAIN digs_dict |-> digs_dict[key] \o "_sec"]

rev_digs == ("F1D" :> 1) @@ ("F2D" :> 2) @@ ("F3D" :> 3) @@ ("SD" :> 22) @@ ("L2D" :> -2)

\* the MAD conformity limits, in millionths
mad_dict == (1 :> <<6000, 12000, 15000>>) @@ (2 :> <<1200, 1800, 2200>>) @@
            (3 :> <<360, 440, 500>>) @@ (22 :> <<8000, 10000, 12000>>) @@
            (-2 :> None)

confs == ("None" :> None) @@ ("80" :> <<1285>>) @@ ("85" :> <<1435>>) @@
         ("90" :> <<1645>>) @@ ("95" :> <<1960>>) @@ ("99" :> <<2576>>) @@
         ("99.9" :> <<3290>>) @@ ("99.99" :> <<3890>>) @@
         ("99.999" :> <<4417>>) @@ ("99.9999" :> <<4892>>) @@
         ("99.99999" :> <<5327>>)

crit_chi2 ==
    (8 :> (("80" :> <<11030>>) @@ ("85" :> <<12027>>) @@ ("90" :> <<13362>>) @@
           ("95" :> <<15507>>) @@ ("99" :> <<20090>>) @@ ("99.9" :> <<26124>>) @@
           ("99.99" :> <<31827>>) @@ ("None" :> None) @@
           ("99.999" :> <<37332>>) @@ ("99.9999" :> <<42701>>) @@
           ("99.99999" :> <<47972>>))) @@
    (9 :> (("80" :> <<12242>>) @@ ("85" :> <<13288>>) @@ ("90" :> <<14684>>) @@
           ("95" :> <<16919>>) @@ ("99" :> <<21666>>) @@ ("99.9" :> <<27877>>) @@
           ("99.99" :> <<33720>>) @@ ("None" :> None) @@
           ("99.999" :> <<39341>>) @@ ("99.9999" :> <<44811>>) @@
           ("99.99999" :> <<50172>>))) @@
    (89 :> (("80" :> <<99991>>) @@ ("85" :> <<102826>>) @@ ("90" :> <<106469>>) @@
            ("95" :> <<112022>>) @@ ("99" :> <<122942>>) @@ ("99.9" :> <<135978>>) @@
            ("99.99" :> <<147350>>) @@ ("99.999" :> <<157702>>) @@
            ("99.9999" :> <<167348>>) @@ ("99.99999" :> <<176471>>) @@
            ("None" :> None))) @@
    (99 :> (("80" :> <<110607>>) @@ ("85" :> <<113585>>) @@ ("90" :> <<117407>>) @@
            ("95" :> <<123225>>) @@ ("99" :> <<134642>>) @@ ("99.9" :> <<148230>>) @@
            ("99.99" :> <<160056>>) @@ ("99.999" :> <<170798>>) @@
            ("99.9999" :> <<180792>>) @@ ("99.99999" :> <<190230>>) @@
            ("None" :> None))) @@
    (899 :> (("80" :> <<934479>>) @@ ("85" :> <<942981>>) @@ ("90" :> <<953752>>) @@
             ("95" :> <<969865>>) @@ ("99" :> <<1000575>>) @@ ("99.9" :> <<1035753>>) @@
             ("99.99" :> <<1065314>>) @@ ("99.999" :> <<1091422>>) @@
             ("99.9999" :> <<1115141>>) @@ ("99.99999" :> <<1137082>>) @@
             ("None" :> None)))

KS_crit == ("80" :> <<1075>>) @@ ("85" :> <<1139>>) @@ ("90" :> <<1125>>) @@
           ("95" :> <<1360>>) @@ ("99" :> <<1630>>) @@ ("99.9" :> <<1950>>) @@
           ("99.99" :> <<2230>>) @@ ("99.999" :> <<2470>>) @@
           ("99.9999" :> <<2700>>) @@ ("99.99999" :> <<2900>>) @@
           ("None" :> None)

\* table[key] raises KeyError
LookupRaises(table, key) == key \notin DOMAIN table

\* table[key1][key2] raises KeyError
LookupRaises2(table, key1, key2) ==
    key1 \notin DOMAIN table \/ key2 \notin DOMAIN table[key1]

\* _check_confidence_ raises ValueError
\* a check that lets every confidence through
CheckConfidenceRaises_Never(confidence) == FALSE

CheckConfidenceRaises(confidence) == confidence \notin DOMAIN confs

-----------------------------------------------------------------------------
(* Expected distributions.  An expected proportion is the exact quantity    *)
(*     sum over a in logs of log10(1 + 1/a)  +  num / den                   *)
(* held by its terms, so that no logarithm is rounded in the model.         *)

Pow10(k) == IF k = 0 THEN 1 ELSE IF k = 1 THEN 10 ELSE IF k = 2 THEN 100 ELSE 1000

LogTerms(S) == [logs |-> S, num |-> 0, den |-> 1]

Ratio(n, d) == [logs |-> {}, num |-> n, den |-> d]

\* _check_digs_ raises ValueError
CheckDigsRaises(digs) == digs \notin {1, 2, 3}

\* mutant of First: Exp = log10(1 + 1 / (Dig + 1)), the probabilities one
\* place off their digits
First_OnePlaceOff(digs) ==
    LET Dig == Pow10(digs - 1) .. (Pow10(digs) - 1)
    IN  [d \in Dig |-> LogTerms({d + 1})]

\* First(digs): Dig = arange(10 ** (digs - 1), 10 ** digs),
\* Exp = log10(1 + 1 / Dig), indexed by Dig
First(digs) ==
    LET Dig == Pow10(digs - 1) .. (Pow10(digs) - 1)
    IN  [d \in Dig |-> LogTerms({d})]

\* mutant of SecondRows: the labels start at 1 instead of 0
SecondRows_Shifted ==
    LET a       == [i \in 1..90 |-> 9 + i]
        Sec_Dig == [i \in 1..90 |-> i % 10]
    IN  [i \in 1..90 |-> [a |-> a[i], Sec_Dig |-> Sec_Dig[i]]]

\* the rows of the frame Second groups: a = arange(10, 100) and
\* Sec_Dig = list(range(10)) * 9, row i holding a[i] and Sec_Dig[i]
SecondRows ==
    LET a       == [i \in 1..90 |-> 9 + i]
        Sec_Dig == [i \in 1..90 |-> (i - 1) % 10]
    IN  [i \in 1..90 |-> [a |-> a[i], Sec_Dig |-> Sec_Dig[i]]]

\* Second: groupby('Sec_Dig').sum() of the rows
Second ==
    LET rows == SecondRows
    IN  [s \in {rows[i].Sec_Dig : i \in DOMAIN rows} |->
            LogTerms({rows[i].a : i \in {j \in DOMAIN rows : rows[j].Sec_Dig = s}})]

\* _lt_(num=True): arange(0, 100)
LtNum == 0 .. 99

\* LastTwo(num=True): 1/99 at each of the hundred last-two-digit values
LastTwo == [d \in LtNum |-> Ratio(1, 99)]

\* _test_(digs)
ExpectedOf(digs) ==
    IF digs = 1 THEN First(1)
    ELSE IF digs = 2 THEN First(2)
    ELSE IF digs = 3 THEN First(3)
    ELSE IF digs = 22 THEN Second
    ELSE LastTwo

-----------------------------------------------------------------------------
(* Base: lines 171-220 *)

\* the significant decimal digits a float64 holds (DBL_DIG)
DoubleDigits == 15

\* np.log10(zn) is the float64 nearest to the logarithm.  For a magnitude of
\* d digits the logarithm lies in [d - 1, d).  It rounds to d itself when it
\* is within half a unit in the last place of d: for d = 15 that unit is
\* 2^-49, and d - log10(10^d - m) ~ m / (10^d ln 10) < 2^-50 iff m <= 2.
\* Below fifteen digits the logarithm of 10^d - 1 is farther from d than
\* that, and the logarithm of 10^(d-1) is d - 1 exactly.
Log10RoundsUp(zn) ==
    /\ Len(zn) = DoubleDigits
    /\ ~MagLess(zn, Nines(DoubleDigits - 1) \o <<8>>)

\* np.log10(zn).astype(int), for a magnitude zn of 1 to 15 digits
Log10AsInt(zn) == IF Log10RoundsUp(zn) THEN Len(zn) ELSE Len(zn) - 1

\* ZN >= 10 ** k
AtLeastPow10(zn, k) == Len(zn) >= k + 1

\* lines 204-209: temp // 10 ** (log10(temp).astype(int) - (digs - 1)) on the
\* entries with ZN >= 10 ** (digs - 1), and -1 on the others
FirstDigs(zn, digs) ==
    IF AtLeastPow10(zn, digs - 1)
    THEN ToNat(FloorDivPow10(zn, Log10AsInt(zn) - (digs - 1)))
    ELSE -1

\* lines 211-214: (ZN // 10 ** (log10(ZN).astype(int) - 1)) % 10 on the
\* entries with ZN >= 10, and -1 on the others
SecondDig(zn) ==
    IF AtLeastPow10(zn, 1)
    THEN ModPow10(FloorDivPow10(zn, Log10AsInt(zn) - 1), 1)
    ELSE -1

\* lines 216-218: ZN % 100 on the entries with ZN >= 1000, -1 on the others
LastTwoDigs(zn) == IF AtLeastPow10(zn, 3) THEN ModPow10(zn, 2) ELSE -1

\* mutant of SignKeeps: 'pos' tests >= 0 and lets the zeros through
SignKeeps_ZeroIsPos(sign, x) ==
    IF sign = "all" THEN Ne0(x)
    ELSE IF sign = "pos" THEN ~x.nan /\ ~x.neg
    ELSE Lt0(x)

\* lines 180-186: the rows the sign keeps ('all', 'pos', and 'neg' for any
\* other value)
SignKeeps(sign, x) ==
    IF sign = "all" THEN Ne0(x)
    ELSE IF sign = "pos" THEN Gt0(x)
    ELSE Lt0(x)

\* lines 180-188: the filtered column is assigned back to the frame, which
\* aligns it on the frame's index and puts NaN in the rows filtered out;
\* dropna then drops those rows and the rows that held NaN already
KeptSeq(data, sign) == SelectSeq(data, LAMBDA x : SignKeeps(sign, x) /\ ~x.nan)

\* the dtype of Seq after lines 180-188: an int64 column with a row filtered
\* out has held NaN, and is float64 from then on
DtypeAfterFilter(data, dtype, sign) ==
    IF dtype = "int64" /\ Len(KeptSeq(data, sign)) = Len(data)
    THEN "int64" ELSE "float64"

\* lines 190-201: ZN of one entry (decimals is a number; 'infer' is not
\* modelled)
ZNOf(x, dtype, decimals) ==
    IF dtype = "int64" THEN AbsVal(x).mag
    ELSE Scale(AbsVal(x).mag, decimals)

\* line 175: Base raises TypeError
BaseRaises(dtype) == dtype # "float64" /\ dtype # "int64"

BaseRow(x, dtype, decimals) ==
    LET zn == ZNOf(x, dtype, decimals)
    IN  [Seq |-> x, ZN |-> zn,
         F1D |-> FirstDigs(zn, rev_digs["F1D"]),
         F2D |-> FirstDigs(zn, rev_digs["F2D"]),
         F3D |-> FirstDigs(zn, rev_digs["F3D"]),
         SD  |-> SecondDig(zn),
         L2D |-> LastTwoDigs(zn)]

\* Base(data, decimals, sign): the rows of the frame
Base(data, dtype, decimals, sign) ==
    LET kept == KeptSeq(data, sign)
        dt   == DtypeAfterFilter(data, dtype, sign)
    IN  [i \in 1..Len(kept) |-> BaseRow(kept[i], dt, decimals)]

-----------------------------------------------------------------------------
(* _set_N_: lines 1377-1387.  limit_N is None or a number held in halves,   *)
(* <<t>> for t / 2, so that a limit that is no integer can be given.        *)

LimitIsInt(limit_N) == limit_N[1] % 2 = 0

\* line 1379
SetNTakesLen(len_df, limit_N) == limit_N = None \/ limit_N[1] > 2 * len_df

\* line 1383: _set_N_ raises ValueError
SetNRaises(len_df, limit_N) ==
    /\ ~SetNTakesLen(len_df, limit_N)
    /\ (limit_N[1] < 0 \/ ~LimitIsInt(limit_N))

\* mutant of SetN: the limit is never applied
SetN_Uncapped(len_df, limit_N) == len_df

\* the value _set_N_ returns when it does not raise
SetN(len_df, limit_N) ==
    IF SetNTakesLen(len_df, limit_N) THEN len_df ELSE limit_N[1] \div 2

-----------------------------------------------------------------------------
(* Test: lines 243-259 *)

\* base.loc[base[col] != -1]
ValidRows(base, col) == SelectSeq(base, LAMBDA r : r[col] # -1)

\* mutant of Test: the degrees of freedom are the number of rows
Test_DdfIsLen(base, digs, limit_N) ==
    LET index == DOMAIN ExpectedOf(digs)
        col   == digs_dict[digs]
    IN  [digs |-> digs,
         value_counts |-> [v \in {base[i][col] : i \in 1..Len(base)} \cap index |->
                              CountEq(base, col, v)],
         size  |-> Len(base),
         N     |-> SetN(Len(base), limit_N),
         ddf   |-> Cardinality(index)]

\* Test(base, digs, limit_N), base being the rows handed to it.  The frame
\* has one row for each value of the index of the expected distribution.
\* The record holds what determines it: the test, the value_counts() of the
\* test's column at the values of that index (the other values of the
\* column find no row to align on) and the number of rows counted.  The
\* columns are read from it with Expected, Counts and Found below.
Test(base, digs, limit_N) ==
    LET index == DOMAIN ExpectedOf(digs)
        col   == digs_dict[digs]
    IN  [digs |-> digs,
         value_counts |-> [v \in {base[i][col] : i \in 1..Len(base)} \cap index |->
                              CountEq(base, col, v)],
         size  |-> Len(base),
         N     |-> SetN(Len(base), limit_N),
         ddf   |-> Cardinality(index) - 1]

\* lines 245-254: the columns of the frame of a Test, the Z_score column
\* being assigned whatever the confidence
TestColumns == {"Expected", "Counts", "Found", "AbsDif", "Z_score"}

\* the Expected column of a test
Expected(test) == ExpectedOf(test.digs)

\* the Counts column of a test: fillna(0) where value_counts() has no entry
Counts(test) ==
    [v \in DOMAIN ExpectedOf(test.digs) |->
        IF v \in DOMAIN test.value_counts THEN test.value_counts[v] ELSE 0]

\* the Found column of a test: value_counts(normalize=True), the fraction
\* <<count, number of rows>>, and 0 where it has no entry
Found(test) ==
    [v \in DOMAIN ExpectedOf(test.digs) |->
        IF v \in DOMAIN test.value_counts
        THEN <<test.value_counts[v], test.size>> ELSE <<0, 1>>]

\* line 253: Test raises ValueError
TestRaises(base, limit_N) == SetNRaises(Len(base), limit_N)

\* _Z_score(frame, N), lines 1083-1092, raises ZeroDivisionError: N is the
\* int that _set_N_ returned, and 1 / (2 * N) divides by it
ZScoreRaises(N) == N = 0

-----------------------------------------------------------------------------
(* _subtract_sorted_: lines 2114-2123 *)

\* sec - sec.shift(1) on the sorted entries: NaN first, then each entry
\* minus the one before it
ShiftDiff(sec) ==
    [i \in 1..Len(sec) |-> IF i = 1 THEN NaN ELSE Minus(sec[i], sec[i - 1])]

\* _subtract_sorted_(data): sort, subtract, keep what is != 0
SubtractSorted(data) ==
    SelectSeq(ShiftDiff(SortSeq(data, NumLess)), Ne0)

\* the dtype of the result: the NaN of the shift makes it float64
SubtractSortedDtype(data, dtype) == IF Len(data) = 0 THEN dtype ELSE "float64"

-----------------------------------------------------------------------------
(* Benford: lines 324-410.  The object is a record; the tests set on it with *)
(* setattr are the function results, from the attribute's name to the test. *)

NoSession == <<>>

\* _input_data_(given), lines 1407-1422, raises TypeError: given is neither
\* a Series, nor an ndarray, nor a tuple of a DataFrame and a str.  The type
\* of given is named by its text.
\* a check of the container that lets every tuple through
InputDataRaises_AnyTuple(given) ==
    given \notin {"Series", "ndarray", "(DataFrame, str)", "(Series, str)"}

InputDataRaises(given) ==
    given \notin {"Series", "ndarray", "(DataFrame, str)"}

\* lines 349-352, 384-387: the number of entries of each test column that
\* hold -1
Discarded(base, names) ==
    [n \in Range(names) |->
        LET k   == CHOOSE i \in 1..Len(names) : names[i] = n
            col == digs_dict[TestKeys[k]]
        IN  CountEq(base, col, -1)]

DigsNames == [k \in 1..Len(TestKeys) |-> digs_dict[TestKeys[k]]]

SecNames == [k \in 1..Len(TestKeys) |-> sec_order_dict[TestKeys[k]]]

\* what a loop over the tests has worked out when the k-th Test raises at
\* line 253: the digits of the base, the Counts, Found and AbsDif columns of
\* this test (lines 247-252), and the statistics of the tests before it
ComputedAtRaise(k) ==
    {"digits", "counts"} \cup (IF k > 1 THEN {"statistics"} ELSE {})

\* what a call has worked out once a Test is complete
ComputedAll == {"digits", "counts", "statistics"}

RECURSIVE InitLoop(_, _)
\* lines 339-347: the tests from the k-th key of digs_dict on; the loop
\* ends at the first test that raises
InitLoop(self, k) ==
    IF k > Len(TestKeys)
    THEN [self |-> self, raised |-> "none", computed |-> {}]
    ELSE LET key  == TestKeys[k]
             val  == digs_dict[key]
             rows == ValidRows(self.base, val)
         IN  IF TestRaises(rows, self.limit_N)
             THEN [self |-> self, raised |-> "ValueError",
                   computed |-> ComputedAtRaise(k)]
             ELSE IF ZScoreRaises(SetN(Len(rows), self.limit_N))
             THEN [self |-> self, raised |-> "ZeroDivisionError",
                   computed |-> ComputedAtRaise(k)]
             ELSE LET test == Test(rows, key, self.limit_N)
                  IN  IF LookupRaises2(crit_chi2, test.ddf, self.confidence)
                      THEN [self |-> self, raised |-> "KeyError",
                            computed |-> ComputedAll]
                      ELSE InitLoop(
                             [self EXCEPT
                                !.results = (val :> test) @@ @,
                                !.tests = Append(@, val),
                                !.crit_vals.chi2 =
                                    (val :> crit_chi2[test.ddf][self.confidence]) @@ @,
                                !.crit_vals.MAD = (val :> mad_dict[key]) @@ @],
                             k + 1)

\* Benford(data, decimals, sign, confidence, limit_N=limit_N), data being
\* the entries _input_data_ chose, of the given dtype: the object, or the
\* exception.  The attribute self.data, which no method reads, is not held.
BenfordNew(data, dtype, decimals, sign, confidence, limit_N) ==
    IF CheckConfidenceRaises(confidence)
    THEN [self |-> NoSession, raised |-> "ValueError", computed |-> {}]
    ELSE IF BaseRaises(dtype)
    THEN [self |-> NoSession, raised |-> "TypeError", computed |-> {}]
    ELSE IF LookupRaises(confs, confidence) \/ LookupRaises(KS_crit, confidence)
    THEN [self |-> NoSession, raised |-> "KeyError", computed |-> {"digits"}]
    ELSE LET self0 ==
               [chosen |-> data, dtype |-> dtype, decimals |-> decimals,
                sign |-> sign, confidence |-> confidence, limit_N |-> limit_N,
                base |-> Base(data, dtype, decimals, sign),
                tests |-> <<>>,
                crit_vals |-> [Z |-> confs[confidence],
                               KS |-> KS_crit[confidence],
                               chi2 |-> <<>>, MAD |-> <<>>],
                results |-> <<>>,
                summs |-> <<>>,
                discarded |-> None,
                base_sec |-> None,
                discarded_sec |-> None]
             done == InitLoop(self0, 1)
         IN  IF done.raised # "none"
             THEN [self |-> NoSession, raised |-> done.raised,
                   computed |-> done.computed]
             ELSE [self |-> [done.self EXCEPT
                               !.discarded = <<Discarded(done.self.base, DigsNames)>>],
                   raised |-> "none", computed |-> done.computed]

RECURSIVE SumMags(_)
\* Series.sum() of magnitudes
SumMags(mags) == IF mags = <<>> THEN <<>> ELSE MagAdd(Head(mags), SumMags(Tail(mags)))

\* line 274: base.abs() takes the absolute value of every column, the
\* digits among them, so that the -1 of a row below the threshold is 1
SummKey(v) == IF v < 0 THEN -v ELSE v

\* line 281: 1 / len(self) of a frame with no row
SummRaises(base) == Len(base) = 0

\* Summ(base, test), lines 274-282: the Sum column, the Percent column as
\* <<Sum, Seq.sum()>> for Sum / Seq.sum(), and the value AbsDif is measured
\* from, <<1, len(self)>> for 1 / len(self)
Summ(base, test) ==
    LET keys    == {SummKey(base[i][test]) : i \in 1..Len(base)}
        rows(k) == SelectSeq(base, LAMBDA r : SummKey(r[test]) = k)
        Sum     == [k \in keys |->
                       SumMags([i \in 1..Len(rows(k)) |-> AbsVal(rows(k)[i].Seq).mag])]
        total   == SumMags([i \in 1..Len(base) |-> AbsVal(base[i].Seq).mag])
    IN  [Sum      |-> Sum,
         Percent  |-> [k \in keys |-> <<Sum[k], total>>],
         Expected |-> <<1, Cardinality(keys)>>]

SummTests == <<"F1D", "F2D", "F3D">>

SummNames == [k \in 1..Len(SummTests) |-> SummTests[k] \o "_Summ"]

\* self.summation(), lines 398-401
Summation(self) ==
    IF SummRaises(self.base)
    THEN [self |-> self, raised |-> "ZeroDivisionError", computed |-> {"counts"}]
    ELSE [self |-> [self EXCEPT
                      !.summs = [n \in Range(SummNames) |->
                                    LET k == CHOOSE i \in 1..Len(SummNames) :
                                                SummNames[i] = n
                                    IN  Summ(self.base, SummTests[k])],
                      !.tests = @ \o SummNames],
          raised |-> "none", computed |-> {}]

RECURSIVE SecOrderLoop(_, _)
\* lines 377-387: the second order tests from the k-th key on; a test that
\* raises leaves the object as the turns before it made it
SecOrderLoop(self, k) ==
    IF k > Len(TestKeys)
    THEN [self |-> self, raised |-> "none", computed |-> {}]
    ELSE LET key  == TestKeys[k]
             val  == digs_dict[key]
             rows == ValidRows(self.base_sec[1], val)
         IN  IF TestRaises(rows, self.limit_N)
             THEN [self |-> self, raised |-> "ValueError",
                   computed |-> ComputedAtRaise(k)]
             ELSE IF ZScoreRaises(SetN(Len(rows), self.limit_N))
             THEN [self |-> self, raised |-> "ZeroDivisionError",
                   computed |-> ComputedAtRaise(k)]
             ELSE SecOrderLoop(
                    [self EXCEPT
                       !.results = (sec_order_dict[key] :> Test(rows, key, self.limit_N)) @@ @,
                       !.tests = Append(@, val),
                       !.discarded_sec = <<Discarded(self.base_sec[1], SecNames)>>],
                    k + 1)

\* self.sec_order()
SecOrder(self) ==
    LET sec == SubtractSorted(self.chosen)
        dt  == SubtractSortedDtype(self.chosen, self.dtype)
    IN  SecOrderLoop([self EXCEPT !.base_sec = <<Base(sec, dt, self.decimals, self.sign)>>], 1)

\* an update_confidence that rounds to one more decimal place as well
UpdateConfidence_AlsoDecimals(self, new_conf) ==
    IF CheckConfidenceRaises(new_conf)
    THEN [self |-> self, raised |-> "ValueError", computed |-> {}]
    ELSE [self |-> [self EXCEPT !.confidence = new_conf, !.decimals = @ + 1],
          raised |-> "none", computed |-> {}]

\* self.update_confidence(new_conf)
UpdateConfidence(self, new_conf) ==
    IF CheckConfidenceRaises(new_conf)
    THEN [self |-> self, raised |-> "ValueError", computed |-> {}]
    ELSE [self |-> [self EXCEPT !.confidence = new_conf], raised |-> "none",
          computed |-> {}]

-----------------------------------------------------------------------------
(* Source: lines 468-514.  The frame is the sequence of its rows, each with  *)
(* its Seq and its ZN.                                                      *)

NoSource == <<>>

\* line 471: Source raises ValueError
SourceSignRaises(sign) == sign \notin {"all", "pos", "neg"}

\* line 477: Source raises TypeError
SourceDtypeRaises(dtype) == dtype # "float64" /\ dtype # "int64"

\* lines 481-486: the rows the sign keeps
SourceKeeps(sign, x) ==
    IF sign = "pos" THEN Gt0(x)
    ELSE IF sign = "neg" THEN Lt0(x)
    ELSE Ne0(x)

\* lines 481-488: the filtered column assigned back and the NaN rows dropped
SourceKept(data, sign) == SelectSeq(data, LAMBDA x : SourceKeeps(sign, x) /\ ~x.nan)

\* the dtype of Seq after lines 481-488, as in Base
SourceDtypeAfterFilter(data, dtype, sign) ==
    IF dtype = "int64" /\ Len(SourceKept(data, sign)) = Len(data)
    THEN "int64" ELSE "float64"

\* sort_values: the rows in ascending order of their entries (rows that hold
\* equal entries in the order the sort leaves them, one of which is chosen)
SortedRows(data) ==
    CHOOSE p \in Permutations(1..Len(data)) :
        \A i \in 1..(Len(data) - 1) : ~NumLess(data[p[i + 1]], data[p[i]])

\* lines 494-495: _subtract_sorted_(Seq) assigned back to the frame.  Each row
\* gets its entry less the entry sorted next below it; the lowest row, whose
\* difference is NaN, and the rows whose difference is 0, which
\* _subtract_sorted_ left out, hold NaN and are dropped.
SubtractSortedRows(data) ==
    LET p       == SortedRows(data)
        rank(i) == CHOOSE j \in 1..Len(data) : p[j] = i
        dif(i)  == IF rank(i) = 1 THEN NaN
                   ELSE Minus(data[i], data[p[rank(i) - 1]])
    IN  SelectSeq([i \in 1..Len(data) |-> dif(i)], LAMBDA d : Ne0(d) /\ ~d.nan)

SourceRow(x, dtype, decimals) == [Seq |-> x, ZN |-> ZNOf(x, dtype, decimals)]

\* Source(data, decimals, sign, sec_order): the frame, or the exception
SourceNew(data, dtype, decimals, sign, sec_order) ==
    IF SourceSignRaises(sign) THEN [self |-> NoSource, raised |-> "ValueError"]
    ELSE IF SourceDtypeRaises(dtype) THEN [self |-> NoSource, raised |-> "TypeError"]
    ELSE LET kept == SourceKept(data, sign)
             dt   == SourceDtypeAfterFilter(data, dtype, sign)
             seq  == IF sec_order THEN SubtractSortedRows(kept) ELSE kept
             dt2  == IF sec_order /\ Len(kept) > 0 THEN "float64" ELSE dt
         IN  [self |-> [i \in 1..Len(seq) |-> SourceRow(seq[i], dt2, decimals)],
              raised |-> "none"]

-----------------------------------------------------------------------------
(* The digit tests of Source: lines 553-813, with _prep_, lines 1425-1450,   *)
(* and _chi_square_ and _KS_, lines 1095-1171.                              *)

\* the feature a test reads of ZN, -1 below the test's threshold
FeatureOf(zn, test) ==
    IF test \in {1, 2, 3} THEN FirstDigs(zn, test)
    ELSE IF test = 22 THEN SecondDig(zn)
    ELSE LastTwoDigs(zn)

\* lines 601-604, 691-693, 772-773: temp[digs_dict[test]], the feature of the
\* rows at or above the threshold
TempColumn(source, test) ==
    SelectSeq([i \in 1..Len(source) |-> FeatureOf(source[i].ZN, test)],
              LAMBDA v : v # -1)

\* line 1431: _prep_ raises ValueError
PrepRaises(col, limit_N) == SetNRaises(Len(col), limit_N)

\* lines 1448-1449: the Z scores are worked out
PrepHasZ(simple, confidence) == ~simple /\ confidence # "None"

\* lines 1434-1450: the frame _prep_ returns, held as the frame of a Test is
Prep(col, digs, limit_N, simple, confidence) ==
    LET index == DOMAIN ExpectedOf(digs)
    IN  [digs |-> digs,
         value_counts |-> [v \in Range(col) \cap index |->
                              Cardinality({i \in 1..Len(col) : col[i] = v})],
         size    |-> Len(col),
         N       |-> SetN(Len(col), limit_N),
         Z_score |-> PrepHasZ(simple, confidence)]

\* lines 1438-1450: the columns of the frame _prep_ returns
PrepColumns(simple, confidence) ==
    {"Expected", "Counts", "Found", "AbsDif"}
       \cup (IF simple THEN {} ELSE {"Dif"})
       \cup (IF PrepHasZ(simple, confidence) THEN {"Z_score"} ELSE {})

\* lines 1524-1528, 1598-1602, 1677-1681: the columns the functions
\* first_digits, second_digit and last_two_digits of the module select from
\* the frame of the method of Source before they return it
ReturnedColumns(confidence) ==
    IF confidence # "None" THEN {"Counts", "Found", "Expected", "Z_score"}
    ELSE {"Counts", "Found", "Expected"}

\* the ddf the three tests hand to _chi_square_: len(df) - 1, 9 and 99
DdfOf(df) ==
    IF df.digs \in {1, 2, 3} THEN Cardinality(DOMAIN ExpectedOf(df.digs)) - 1
    ELSE IF df.digs = 22 THEN 9
    ELSE 99

\* a chi-square that falls back on the level 95 when there is no confidence
ChiSquare_DefaultLevel(df, ddf, confidence) ==
    crit_chi2[ddf][IF confidence = "None" THEN "95" ELSE confidence]

\* _chi_square_(df, ddf, confidence): None without a confidence, else the
\* statistic of the frame with the critical value <<crit_chi>>
ChiSquare(df, ddf, confidence) ==
    IF confidence = "None" THEN None ELSE crit_chi2[ddf][confidence]

\* _KS_(df, confidence, N): None without a confidence, else the supremum of
\* the frame with the critical value KS_crit / sqrt(N), held as <<KS_crit, N>>
KS(df, confidence, N) ==
    IF confidence = "None" THEN None ELSE KS_crit[confidence] \o <<N>>

\* what the caller asks of a digit test
Flags == [MAD : BOOLEAN, MSE : BOOLEAN, chi_square : BOOLEAN, KS : BOOLEAN,
          simple : BOOLEAN]

\* the body of first_digits, second_digit and last_two_digits after their
\* checks: the frame df, the attributes set on the Source, and the values of
\* chi_square and KS (the MAD and the MSE are the frame's)
DigitTest(source, test, confidence, limit_N, flags) ==
    LET col == TempColumn(source, test)
    IN  IF PrepRaises(col, limit_N)
        THEN [raised |-> "ValueError", computed |-> {"digits"}, ret |-> None]
        ELSE IF PrepHasZ(flags.simple, confidence)
                /\ ZScoreRaises(SetN(Len(col), limit_N))
        THEN [raised |-> "ZeroDivisionError", computed |-> {"digits", "counts"},
              ret |-> None]
        ELSE LET df == Prep(col, test, limit_N, flags.simple, confidence)
             IN  [raised |-> "none", computed |-> {},
                  ret |-> <<[df |-> df,
                             attrs |-> {a \in {"MAD", "MSE", "chi_square", "KS"} : flags[a]},
                             chi_square |-> IF flags.chi_square
                                            THEN ChiSquare(df, DdfOf(df), confidence)
                                            ELSE None,
                             KS |-> IF flags.KS THEN KS(df, confidence, Len(col))
                                    ELSE None]>>]

Failed(exception) == [raised |-> exception, computed |-> {}, ret |-> None]

\* Source.first_digits(digs, ...)
SourceFirstDigits(source, digs, confidence, limit_N, flags) ==
    IF CheckConfidenceRaises(confidence) THEN Failed("ValueError")
    ELSE IF CheckDigsRaises(digs) THEN Failed("ValueError")
    ELSE DigitTest(source, digs, confidence, limit_N, flags)

\* Source.second_digit(...)
SourceSecondDigit(source, confidence, limit_N, flags) ==
    IF CheckConfidenceRaises(confidence) THEN Failed("ValueError")
    ELSE DigitTest(source, 22, confidence, limit_N, flags)

\* Source.last_two_digits(...)
SourceLastTwoDigits(source, confidence, limit_N, flags) ==
    IF CheckConfidenceRaises(confidence) THEN Failed("ValueError")
    ELSE DigitTest(source, -2, confidence, limit_N, flags)

\* the digit test of a checked test: lines 1775-1780, 2058-2069
SourceTest(source, test, confidence, limit_N, flags) ==
    IF test \in {1, 2, 3}
    THEN SourceFirstDigits(source, test, confidence, limit_N, flags)
    ELSE IF test = 22 THEN SourceSecondDigit(source, confidence, limit_N, flags)
    ELSE SourceLastTwoDigits(source, confidence, limit_N, flags)

-----------------------------------------------------------------------------
(* _check_test_: lines 2082-2102.  What is given as a test is held with its  *)
(* type: an int, a str, or a float (in halves).                             *)

IntId(n) == [type |-> "int", int |-> n, str |-> ""]

StrId(t) == [type |-> "str", int |-> 0, str |-> t]

FloatId(halves) == [type |-> "float", int |-> halves, str |-> ""]

\* _check_test_ raises ValueError
\* a check that lets every integer through
CheckTestRaises_AnyInt(test) ==
    IF test.type = "int" THEN FALSE
    ELSE IF test.type = "str" THEN test.str \notin DOMAIN rev_digs
    ELSE TRUE

CheckTestRaises(test) ==
    IF test.type = "int" THEN test.int \notin DOMAIN digs_dict
    ELSE IF test.type = "str" THEN test.str \notin DOMAIN rev_digs
    ELSE TRUE

\* what _check_test_ returns
CheckTest(test) == IF test.type = "int" THEN test.int ELSE rev_digs[test.str]

-----------------------------------------------------------------------------
(* mse and second_order: lines 1769-1781, 1990-2070 *)

OnlyMSE == [MAD |-> FALSE, MSE |-> TRUE, chi_square |-> FALSE, KS |-> FALSE,
            simple |-> TRUE]

OnlyMAD == [MAD |-> TRUE, MSE |-> FALSE, chi_square |-> FALSE, KS |-> FALSE,
            simple |-> TRUE]

\* mad(data, test, decimals, sign): _check_digs_ on the test, so that only
\* the integers 1, 2, 3 pass
Mad(data, dtype, test, decimals, sign) ==
    IF test.type # "int" \/ CheckDigsRaises(test.int) THEN Failed("ValueError")
    ELSE LET start == SourceNew(data, dtype, decimals, sign, FALSE)
         IN  IF start.raised # "none" THEN Failed(start.raised)
             ELSE SourceFirstDigits(start.self, test.int, "None", None, OnlyMAD)

\* Source.summation(digs), lines 837-851, as summation(data, digs, decimals,
\* sign) calls it: the frame grouped and summed has the columns Seq, ZN and
\* Percent, and the column Sum asked of it at line 850 is none of them
SourceSummation(source, digs) ==
    IF CheckDigsRaises(digs) THEN Failed("ValueError")
    ELSE [raised |-> "KeyError", computed |-> {"digits", "counts"}, ret |-> None]

\* summation(data, digs, decimals, sign)
SummationOf(data, dtype, digs, decimals, sign) ==
    LET source == SourceNew(data, dtype, decimals, sign, FALSE)
    IN  IF source.raised # "none" THEN Failed(source.raised)
        ELSE SourceSummation(source.self, digs)

\* mad_summ(data, test, decimals, sign): the mean of |ZN / ZN.sum() - li|
\* over the groups, held as the sums of the groups, the shares as
\* <<sum, ZN.sum()>> and li as <<1, 9 * 10 ** (test - 1)>>
MadSumm(data, dtype, test, decimals, sign) ==
    IF CheckDigsRaises(test) THEN Failed("ValueError")
    ELSE LET start == SourceNew(data, dtype, decimals, sign, FALSE)
         IN  IF start.raised # "none" THEN Failed(start.raised)
             ELSE LET temp    == SelectSeq(start.self,
                                           LAMBDA r : AtLeastPow10(r.ZN, test - 1))
                      keys    == {FirstDigs(temp[i].ZN, test) : i \in 1..Len(temp)}
                      rows(k) == SelectSeq(temp, LAMBDA r : FirstDigs(r.ZN, test) = k)
                      Sum     == [k \in keys |->
                                     SumMags([i \in 1..Len(rows(k)) |-> rows(k)[i].ZN])]
                      total   == SumMags([i \in 1..Len(temp) |-> temp[i].ZN])
                  IN  [raised |-> "none", computed |-> {},
                       ret |-> <<[test     |-> test,
                                  Sum      |-> Sum,
                                  Percent  |-> [k \in keys |-> <<Sum[k], total>>],
                                  Expected |-> <<1, 9 * Pow10(test - 1)>>]>>]

\* lines 874-875 and 1964-1965: top_Rep is neither None nor an int
TopRepRaises(top_Rep) == top_Rep \notin {"None", "int"}

\* data.loc[data.duplicated(keep=False)]
Duplicated(data) ==
    SelectSeq(data, LAMBDA x : Cardinality({i \in 1..Len(data) : data[i] = x}) > 1)

\* Series.value_counts(): the values with their counts, the larger count
\* first; the order of values of one count is the library's, so every order
\* is taken
ValueCounts(col) ==
    LET vals     == Range(col)
        count(v) == Cardinality({i \in 1..Len(col) : col[i] = v})
        n        == Cardinality(vals)
    IN  {[i \in 1..n |-> <<f[i], count(f[i])>>] :
            f \in {g \in [1..n -> vals] :
                      /\ \A i, j \in 1..n : i # j => g[i] # g[j]
                      /\ \A i \in 1..(n - 1) : count(g[i]) >= count(g[i + 1])}}

\* duplicates(data, top_Rep), lines 1964-1987: what it may return
Duplicates(data, top_Rep) ==
    IF TopRepRaises(top_Rep) THEN {Failed("ValueError")}
    ELSE {[raised |-> "none", computed |-> {}, ret |-> <<[dup_count |-> c]>>] :
             c \in ValueCounts(Duplicated(data))}

\* Source.duplicates(top_Rep), lines 874-885: self.maps, which line 885
\* reads, is set nowhere
SourceDuplicates(source, top_Rep) ==
    IF TopRepRaises(top_Rep) THEN Failed("ValueError")
    ELSE [raised |-> "AttributeError", computed |-> {"counts"}, ret |-> None]

\* an entry with decimal places: mag * 10 ** exp, with its sign
Dec(neg, mag, exp) == [nan |-> FALSE, neg |-> neg /\ mag # <<>>, mag |-> mag, exp |-> exp]

DecNaN == [nan |-> TRUE, neg |-> FALSE, mag |-> <<>>, exp |-> 0]

RECURSIVE StripTrailingZeros(_)
StripTrailingZeros(m) ==
    IF m # <<>> /\ m[Len(m)] = 0 THEN StripTrailingZeros(SubSeq(m, 1, Len(m) - 1))
    ELSE m

\* the integer part n of log10(mag * 10 ** exp) = n + f, 0 <= f < 1: the
\* place of the leading digit
Characteristic(x) == Len(x.mag) - 1 + x.exp

\* _getMantissas_ on one entry above 0.  With log10 = n + f, f the
\* fractional part of the logarithm of the significant digits sig:
\* |n + f| - int(|n + f|) is f when n >= 0, 0 when f = 0, and 1 - f when
\* n < 0 < f.  Held as sig, and whether the value is 1 - f instead of f.
GetMantissa(x) ==
    LET sig == StripTrailingZeros(x.mag)
        n   == Characteristic(x)
    IN  [sig |-> sig, complement |-> n < 0 /\ sig # <<1>>]

\* lines 907-912: data is neither an ndarray nor a Series
MantissasRaises(given) == given \notin {"ndarray", "Series"}

\* Mantissas(data), lines 906-915: the mantissas of the entries that are
\* neither NaN nor 0
MantissasNew(given, data) ==
    IF MantissasRaises(given) THEN Failed("ValueError")
    ELSE LET kept == SelectSeq(data, LAMBDA x : ~x.nan /\ x.mag # <<>>)
         IN  [raised |-> "none", computed |-> {},
              ret |-> <<[mantissas |-> [i \in 1..Len(kept) |-> GetMantissa(kept[i])]]>>]

\* mse(data, test, decimals, sign)
Mse(data, dtype, test, decimals, sign) ==
    IF CheckTestRaises(test) THEN Failed("ValueError")
    ELSE LET start == SourceNew(data, dtype, decimals, sign, FALSE)
         IN  IF start.raised # "none" THEN Failed(start.raised)
             ELSE SourceTest(start.self, CheckTest(test), "None", None, OnlyMSE)

\* second_order(data, test, decimals, sign, MAD=MAD, confidence=confidence,
\* limit_N=limit_N, MSE=MSE): the Source it returns, with what the test set
\* on it
SecondOrder(data, dtype, test, decimals, sign, confidence, limit_N, MAD, MSE) ==
    IF CheckTestRaises(test) THEN Failed("ValueError")
    ELSE LET source == SourceNew(data, dtype, decimals, sign, TRUE)
             flags  == [MAD |-> MAD, MSE |-> MSE, chi_square |-> FALSE,
                        KS |-> FALSE, simple |-> FALSE]
         IN  IF source.raised # "none" THEN Failed(source.raised)
             ELSE LET r == SourceTest(source.self, CheckTest(test), confidence,
                                      limit_N, flags)
                  IN  IF r.raised # "none" THEN r
                      ELSE [r EXCEPT !.ret = <<[source |-> source.self,
                                                attrs |-> r.ret[1].attrs,
                                                df |-> r.ret[1].df]>>]

-----------------------------------------------------------------------------
(* rolling_mad and rolling_mse: lines 979-1080, 1820-1946 *)

\* the power of ten _prep_to_roll_ divides a row's ZN by: the digits of ZN,
\* as np.log10 counts them, beyond those the test reads
RollExponent(zn, test) == Log10AsInt(zn) - ((IF test = 22 THEN 2 ELSE test) - 1)

\* lines 1826-1827, 1834-1835: 10 ** (...) on the int64 exponents of all the
\* rows raises ValueError when one of them is negative (log10(0) is -inf,
\* the least int64 as an int)
PrepToRollRaises(source, test) ==
    /\ test # -2
    /\ \E i \in 1..Len(source) :
          source[i].ZN = <<>> \/ RollExponent(source[i].ZN, test) < 0

\* lines 1826, 1834, 1845: the column set on the frame, of all its rows (the
\* filter of lines 1828, 1836, 1846 binds a local name and leaves the frame)
RollColumn(source, test) ==
    [i \in 1..Len(source) |->
        LET zn == source[i].ZN
        IN  IF test \in {1, 2, 3} THEN ToNat(FloorDivPow10(zn, RollExponent(zn, test)))
            ELSE IF test = 22 THEN ModPow10(FloorDivPow10(zn, RollExponent(zn, test)), 1)
            ELSE ModPow10(zn, 2)]

\* rolling(window).apply(...) and dropna: one value for each run of `window`
\* rows, the statistic of the proportions of the run reindexed on the index
\* of the expected distribution; held as the frame that determines it
Rolled(col, test, window) ==
    LET index == DOMAIN ExpectedOf(test)
    IN  [k \in 1..(IF Len(col) >= window THEN Len(col) - window + 1 ELSE 0) |->
            LET arr == SubSeq(col, k, k + window - 1)
            IN  [value_counts |-> [v \in Range(arr) \cap index |->
                                      Cardinality({i \in 1..window : arr[i] = v})],
                 size |-> window]]

\* Roll_mad(data, test, window, decimals, sign) and Roll_mse(...), which
\* differ in the statistic they apply
Roll(data, dtype, test, window, decimals, sign) ==
    IF CheckTestRaises(test) THEN Failed("ValueError")
    ELSE LET start == SourceNew(data, dtype, decimals, sign, FALSE)
             kind  == CheckTest(test)
         IN  IF start.raised # "none" THEN Failed(start.raised)
             ELSE IF PrepToRollRaises(start.self, kind)
             THEN [raised |-> "ValueError", computed |-> {}, ret |-> None]
             ELSE [raised |-> "none", computed |-> {},
                   ret |-> <<[test |-> kind,
                              rolled |-> Rolled(RollColumn(start.self, kind), kind, window)]>>]

\* rolling_mad(data, test, window, decimals, sign): line 1882, then Roll_mad
RollingMad(data, dtype, test, window, decimals, sign) ==
    IF CheckTestRaises(test) THEN Failed("ValueError")
    ELSE Roll(data, dtype, IntId(CheckTest(test)), window, decimals, sign)

\* rolling_mse(data, test, window, decimals, sign): Roll_mse
RollingMse(data, dtype, test, window, decimals, sign) ==
    Roll(data, dtype, test, window, decimals, sign)

-----------------------------------------------------------------------------
(* The inputs of the model *)

Big == Num(FALSE, Nines(DoubleDigits))

Values == {V(0), V(7), V(-7), V(1000), V(1234), V(-1234), Big}

Samples == UNION {[1..n -> Values] : n \in 1..MaxLen}

Dtypes == {"int64", "float64", "object"}

DecimalsGiven == {0, 2}

\* the three signs of the docstring, and one that is none of them
Signs == {"all", "pos", "neg", "both"}

\* the types of what is given as data: one _input_data_ takes, two it
\* does not
Givens == {"Series", "list", "(Series, str)"}

Confidences == {"None", "95", "50"}

\* None, and 0, 1, 3 / 2 and -1 in halves
Limits == {None, <<0>>, <<2>>, <<3>>, <<-2>>}

\* what the functions of the module are given: short series of entries, of
\* int64, and the one-entry series of float64 and of object dtype as well
Series == UNION {[1..n -> {V(0), V(7), V(-7), V(1234), V(-1234)}] : n \in 1..MaxLen}

TypedSeries ==
    {[data |-> d, dtype |-> "int64"] : d \in Series}
    \cup {[data |-> d, dtype |-> t] : d \in {e \in Series : Len(e) = 1},
                                      t \in {"float64", "object"}}

\* what is given as a test: the five keys and 0, the five names and one
\* more, and 1.5
TestIdents ==
    {IntId(n) : n \in {1, 2, 3, 22, -2, 0}}
    \cup {StrId(t) : t \in {"F1D", "F2D", "F3D", "SD", "L2D", "F4D"}}
    \cup {FloatId(3)}

Windows == {1, 2}

\* what is given to Mantissas: 1, 2 and 25 times 0.01, 0.1, 1 and 10, with
\* either sign, 0 and NaN
DecValues ==
    {Dec(neg, mag, exp) : neg \in BOOLEAN, mag \in {<<1>>, <<2>>, <<2, 5>>},
                          exp \in {-2, -1, 0, 1}}
    \cup {Dec(FALSE, <<>>, 0), DecNaN}

DecSeries == UNION {[1..n -> DecValues] : n \in 1..MaxLen}

\* the types of what is given to Mantissas: two it takes, one it does not
MantGivens == {"ndarray", "Series", "list"}

\* series every entry of which is valid for every test
LevelSeries == {d \in Series : \A i \in 1..Len(d) : d[i].mag = <<1, 2, 3, 4>>}

\* what is given to duplicates: series of 5, 3, 7 and -5
DupSeries == UNION {[1..n -> {V(5), V(3), V(7), V(-5)}] : n \in 1..MaxDupLen}

\* what is given as top_Rep, by its type
TopReps == {"int", "None", "float"}

\* what is given as digs: 1, 2, 3 and one more
DigsGiven == {1, 2, 3, 4}

\* what is asked of a digit test: every statistic, or none
FlagsGiven == {f \in Flags : ~f.simple /\ f.MAD = f.MSE /\ f.MSE = f.chi_square
                                       /\ f.chi_square = f.KS}

\* the entries, and the differences the second order test takes of them,
\* scaled by 10 ** decimals, stay within the digits a float64 holds exactly
ExactInFloat64(data, decimals) ==
    \A i, j \in 1..Len(data) :
        /\ Len(data[i].mag) + decimals <= DoubleDigits
        /\ i # j => Len(Minus(data[i], data[j]).mag) + decimals <= DoubleDigits

-----------------------------------------------------------------------------
(* The state machine *)

NoCall == <<>>

\* nothing has been called yet.  A run makes one Benford object, or calls
\* one function of the module.
Fresh == session = NoSession /\ raised = "none" /\ call = NoCall

Init == session = NoSession /\ raised = "none" /\ computed = {} /\ call = NoCall

\* Benford(given, ...): line 326 first, then the rest of __init__
Construct ==
    /\ Fresh
    /\ \E given \in Givens, data \in Samples, dtype \in Dtypes,
          decimals \in DecimalsGiven, sign \in Signs,
          confidence \in Confidences, limit_N \in Limits :
          /\ ExactInFloat64(data, decimals)
          /\ LET r == IF InputDataRaises(given)
                      THEN [self |-> NoSession, raised |-> "TypeError", computed |-> {}]
                      ELSE BenfordNew(data, dtype, decimals, sign, confidence, limit_N)
             IN  /\ session' = r.self /\ raised' = r.raised /\ computed' = r.computed
                 /\ call' = [op |-> "Benford",
                             args |-> [given |-> given, dtype |-> dtype, sign |-> sign,
                                       confidence |-> confidence, limit_N |-> limit_N],
                             ret |-> None]

CallSecOrder ==
    /\ session # NoSession
    /\ Len(SelectSeq(session.tests, LAMBDA t : t \in Range(DigsNames)))
          < Len(TestKeys) * (1 + MaxCalls)
    /\ LET r == SecOrder(session)
       IN  session' = r.self /\ raised' = r.raised /\ computed' = r.computed
    /\ UNCHANGED call

CallUpdateConfidence ==
    /\ session # NoSession
    /\ \E new_conf \in Confidences :
          LET r == UpdateConfidence(session, new_conf)
          IN  session' = r.self /\ raised' = r.raised /\ computed' = r.computed
    /\ UNCHANGED call

CallBenfordSummation ==
    /\ session # NoSession
    /\ Len(SelectSeq(session.tests, LAMBDA t : t \in Range(SummNames)))
          < Len(SummTests) * MaxCalls
    /\ LET r == Summation(session)
       IN  session' = r.self /\ raised' = r.raised /\ computed' = r.computed
    /\ UNCHANGED call

\* a Benford object, its second order tests and its confidence
Next == Construct \/ CallSecOrder \/ CallUpdateConfidence

Spec == Init /\ [][Next]_vars

-----------------------------------------------------------------------------
(* The functions of the module, called on series; no Benford object is made *)

\* the call that has ended, as the variables hold it
Called(op, args, r) ==
    /\ call' = [op |-> op, args |-> args, ret |-> r.ret]
    /\ raised' = r.raised
    /\ computed' = r.computed
    /\ UNCHANGED session

CallMse ==
    /\ Fresh
    /\ \E given \in TypedSeries, test \in TestIdents, decimals \in DecimalsGiven,
          sign \in Signs :
          /\ ExactInFloat64(given.data, decimals)
          /\ Called("mse",
                    [data |-> given.data, dtype |-> given.dtype, test |-> test,
                     decimals |-> decimals, sign |-> sign],
                    Mse(given.data, given.dtype, test, decimals, sign))

CallMad ==
    /\ Fresh
    /\ \E given \in TypedSeries, test \in TestIdents, decimals \in DecimalsGiven,
          sign \in Signs :
          /\ ExactInFloat64(given.data, decimals)
          /\ Called("mad",
                    [data |-> given.data, dtype |-> given.dtype, test |-> test,
                     decimals |-> decimals, sign |-> sign],
                    Mad(given.data, given.dtype, test, decimals, sign))

CallSummation ==
    /\ Fresh
    /\ \E given \in TypedSeries, digs \in DigsGiven, decimals \in DecimalsGiven,
          sign \in Signs :
          /\ ExactInFloat64(given.data, decimals)
          /\ Called("summation",
                    [data |-> given.data, dtype |-> given.dtype, digs |-> digs,
                     decimals |-> decimals, sign |-> sign],
                    SummationOf(given.data, given.dtype, digs, decimals, sign))

CallMadSumm ==
    /\ Fresh
    /\ \E given \in TypedSeries, test \in DigsGiven, decimals \in DecimalsGiven,
          sign \in Signs :
          /\ ExactInFloat64(given.data, decimals)
          /\ Called("mad_summ",
                    [data |-> given.data, dtype |-> given.dtype, test |-> test,
                     decimals |-> decimals, sign |-> sign],
                    MadSumm(given.data, given.dtype, test, decimals, sign))

CallSecondOrder ==
    /\ Fresh
    /\ \E given \in TypedSeries, test \in TestIdents, decimals \in DecimalsGiven,
          sign \in Signs, confidence \in {"None", "95"} :
          /\ ExactInFloat64(given.data, decimals)
          /\ Called("second_order",
                    [data |-> given.data, dtype |-> given.dtype, test |-> test,
                     decimals |-> decimals, sign |-> sign, confidence |-> confidence],
                    SecondOrder(given.data, given.dtype, test, decimals, sign,
                                confidence, None, TRUE, TRUE))

CallRollingMad ==
    /\ Fresh
    /\ \E given \in TypedSeries, test \in TestIdents, window \in Windows,
          decimals \in DecimalsGiven, sign \in Signs :
          /\ ExactInFloat64(given.data, decimals)
          /\ Called("rolling_mad",
                    [data |-> given.data, dtype |-> given.dtype, test |-> test,
                     window |-> window, decimals |-> decimals, sign |-> sign],
                    RollingMad(given.data, given.dtype, test, window, decimals, sign))

CallRollingMse ==
    /\ Fresh
    /\ \E given \in TypedSeries, test \in TestIdents, window \in Windows,
          decimals \in DecimalsGiven, sign \in Signs :
          /\ ExactInFloat64(given.data, decimals)
          /\ Called("rolling_mse",
                    [data |-> given.data, dtype |-> given.dtype, test |-> test,
                     window |-> window, decimals |-> decimals, sign |-> sign],
                    RollingMse(given.data, given.dtype, test, window, decimals, sign))

\* Source(data, decimals, sign).first_digits(digs, confidence=..., ...)
CallFirstDigits ==
    /\ Fresh
    /\ \E given \in TypedSeries, digs \in DigsGiven, decimals \in DecimalsGiven,
          sign \in Signs, confidence \in Confidences, limit_N \in {None, <<-2>>},
          flags \in FlagsGiven :
          /\ ExactInFloat64(given.data, decimals)
          /\ LET source == SourceNew(given.data, given.dtype, decimals, sign, FALSE)
             IN  Called("first_digits",
                        [data |-> given.data, dtype |-> given.dtype, digs |-> digs,
                         decimals |-> decimals, sign |-> sign,
                         confidence |-> confidence, limit_N |-> limit_N,
                         flags |-> flags],
                        IF source.raised # "none" THEN Failed(source.raised)
                        ELSE SourceFirstDigits(source.self, digs, confidence,
                                               limit_N, flags))

\* Source(data, decimals, sign).second_digit(confidence=..., ...)
CallSecondDigit ==
    /\ Fresh
    /\ \E given \in TypedSeries, decimals \in DecimalsGiven,
          sign \in Signs, confidence \in Confidences, limit_N \in {None, <<-2>>},
          flags \in FlagsGiven :
          /\ ExactInFloat64(given.data, decimals)
          /\ LET source == SourceNew(given.data, given.dtype, decimals, sign, FALSE)
             IN  Called("second_digit",
                        [data |-> given.data, dtype |-> given.dtype,
                         decimals |-> decimals, sign |-> sign,
                         confidence |-> confidence, limit_N |-> limit_N,
                         flags |-> flags],
                        IF source.raised # "none" THEN Failed(source.raised)
                        ELSE SourceSecondDigit(source.self, confidence, limit_N, flags))

\* Source(data, decimals, sign).last_two_digits(confidence=..., ...)
CallLastTwoDigits ==
    /\ Fresh
    /\ \E given \in TypedSeries, decimals \in DecimalsGiven,
          sign \in Signs, confidence \in Confidences, limit_N \in {None, <<-2>>},
          flags \in FlagsGiven :
          /\ ExactInFloat64(given.data, decimals)
          /\ LET source == SourceNew(given.data, given.dtype, decimals, sign, FALSE)
             IN  Called("last_two_digits",
                        [data |-> given.data, dtype |-> given.dtype,
                         decimals |-> decimals, sign |-> sign,
                         confidence |-> confidence, limit_N |-> limit_N,
                         flags |-> flags],
                        IF source.raised # "none" THEN Failed(source.raised)
                        ELSE SourceLastTwoDigits(source.self, confidence, limit_N, flags))

NextSource ==
    \/ CallMad \/ CallMse \/ CallSecondOrder \/ CallRollingMad \/ CallRollingMse
    \/ CallFirstDigits \/ CallSecondDigit \/ CallLastTwoDigits

SpecSource == Init /\ [][NextSource]_vars

\* duplicates(data, top_Rep=top_Rep)
CallDuplicates ==
    /\ Fresh
    /\ \E data \in DupSeries, top_Rep \in TopReps :
          \E r \in Duplicates(data, top_Rep) :
             Called("duplicates", [data |-> data, top_Rep |-> top_Rep], r)

\* Source(data, decimals, sign).duplicates(top_Rep=top_Rep)
CallSourceDuplicates ==
    /\ Fresh
    /\ \E given \in TypedSeries, decimals \in DecimalsGiven, sign \in Signs,
          top_Rep \in TopReps :
          /\ ExactInFloat64(given.data, decimals)
          /\ LET source == SourceNew(given.data, given.dtype, decimals, sign, FALSE)
             IN  Called("Source.duplicates",
                        [data |-> given.data, dtype |-> given.dtype,
                         decimals |-> decimals, sign |-> sign, top_Rep |-> top_Rep],
                        IF source.raised # "none" THEN Failed(source.raised)
                        ELSE SourceDuplicates(source.self, top_Rep))

NextDup == CallDuplicates \/ CallSourceDuplicates

\* the duplicates tests
SpecDup == Init /\ [][NextDup]_vars

\* the summation tests: of a Benford object, and of the module
NextSumm == Construct \/ CallBenfordSummation \/ CallSummation \/ CallMadSumm

SpecSumm == Init /\ [][NextSumm]_vars

\* Mantissas(data)
CallMantissas ==
    /\ Fresh
    /\ \E given \in MantGivens, data \in DecSeries :
          Called("Mantissas", [given |-> given, data |-> data],
                 MantissasNew(given, data))

NextMant == CallMantissas

\* the mantissas
SpecMant == Init /\ [][NextMant]_vars

\* Source(data, 0, 'all') and the digit test of a key, asked for every
\* statistic at one of the confidence levels of confs, with no limit_N, or
\* one of 0 or 1
CallTestAtLevel ==
    /\ Fresh
    /\ \E data \in LevelSeries, test \in Range(TestKeys), confidence \in DOMAIN confs,
          limit_N \in {None, <<0>>, <<2>>} :
          LET source == SourceNew(data, "int64", 0, "all", FALSE)
              flags  == CHOOSE f \in FlagsGiven : f.chi_square
          IN  Called(IF test \in {1, 2, 3} THEN "first_digits"
                     ELSE IF test = 22 THEN "second_digit" ELSE "last_two_digits",
                     [data |-> data, dtype |-> "int64", digs |-> test, decimals |-> 0,
                      sign |-> "all", confidence |-> confidence, limit_N |-> limit_N,
                      flags |-> flags],
                     SourceTest(source.self, test, confidence, limit_N, flags))

NextLevels == CallTestAtLevel

\* the digit tests at every confidence level
SpecLevels == Init /\ [][NextLevels]_vars

\* a Benford object and every method that changes it
NextSession == Next \/ CallBenfordSummation

SpecSession == Init /\ [][NextSession]_vars

\* every call of the model
NextAll == Next \/ NextSource \/ NextSumm \/ NextDup \/ NextMant \/ NextLevels

SpecAll == Init /\ [][NextAll]_vars

-----------------------------------------------------------------------------
(* What the claims speak of, stated without the operators of the model *)

\* the frames of prepared data the object holds
SessionBases ==
    IF session = NoSession THEN {}
    ELSE {session.base} \cup (IF session.base_sec = None THEN {} ELSE {session.base_sec[1]})

\* the number of digits a test needs: ZN >= 1, 10, 100, 10, 1000
DigitsNeeded == ("F1D" :> 1) @@ ("F2D" :> 2) @@ ("F3D" :> 3) @@ ("SD" :> 2) @@ ("L2D" :> 4)

\* the values a test's feature takes
FeatureDomain ==
    ("F1D" :> 1..9) @@ ("F2D" :> 10..99) @@ ("F3D" :> 100..999) @@
    ("SD" :> 0..9) @@ ("L2D" :> 0..99)

TestNames == DOMAIN DigitsNeeded

\* the number written by the first n characters of a decimal string
LeadingDigits(zn, n) == ToNat(SubSeq(zn, 1, n))

BelowThreshold(row, name) == Len(row.ZN) < DigitsNeeded[name]

RECURSIVE SumOver(_, _)
\* the sum of f over the set S
SumOver(f, S) ==
    IF S = {} THEN 0
    ELSE LET v == CHOOSE x \in S : TRUE IN f[v] + SumOver(f, S \ {v})

-----------------------------------------------------------------------------
(* Claims *)

\* C1: for N in {1,2,3} and every ZN >= 10^(N-1), the first-N-digits feature
\* of an entry of a Base is the number formed by the first N characters of
\* the decimal string of ZN.
C1_FirstDigitsAreLeadingDigits ==
    \A b \in SessionBases : \A i \in 1..Len(b) : \A name \in {"F1D", "F2D", "F3D"} :
        LET n == DigitsNeeded[name]
        IN  Len(b[i].ZN) >= n => b[i][name] = LeadingDigits(b[i].ZN, n)

\* C2: every feature column of every entry of a Base holds -1 exactly when
\* ZN is below the feature's threshold, and otherwise a value of the
\* feature's domain; SD is then the second digit from the left and L2D is
\* ZN mod 100.
C2_SentinelOrDomain ==
    \A b \in SessionBases : \A i \in 1..Len(b) : \A name \in TestNames :
        /\ b[i][name] = -1 <=> BelowThreshold(b[i], name)
        /\ ~BelowThreshold(b[i], name) =>
              /\ b[i][name] \in FeatureDomain[name]
              /\ name = "SD" => b[i].SD = b[i].ZN[2]
              /\ name = "L2D" =>
                    b[i].L2D = 10 * b[i].ZN[Len(b[i].ZN) - 1] + b[i].ZN[Len(b[i].ZN)]

\* C3: for each of the five tests of a Benford object the discarded count is
\* the number of entries of the base with ZN below the test's threshold, and
\* the Counts of the test and the discarded count add up to the number of
\* entries of the base.
C3_CountedOrDiscarded ==
    session # NoSession =>
        \A name \in TestNames :
            LET test == session.results[name]
                disc == session.discarded[1][name]
            IN  /\ disc = Cardinality({i \in 1..Len(session.base) :
                                        BelowThreshold(session.base[i], name)})
                /\ SumOver(Counts(test), DOMAIN test.value_counts) + disc
                     = Len(session.base)

\* C4: the entries the primary tests analyse are the non-zero entries of the
\* sample for sign 'all', the entries > 0 for 'pos' and the entries < 0 for
\* 'neg', in their order; no entry of the base is zero; and ZN depends on
\* the absolute value alone, so that an entry and its negation have one ZN.
C4_SignFilter ==
    (session # NoSession /\ session.sign \in {"all", "pos", "neg"}) =>
        LET base     == session.base
            analysed == [i \in 1..Len(base) |-> base[i].Seq]
            wanted   == SelectSeq(session.chosen,
                          LAMBDA x : IF session.sign = "all" THEN x.mag # <<>>
                                     ELSE IF session.sign = "pos"
                                          THEN ~x.neg /\ x.mag # <<>>
                                     ELSE x.neg)
        IN  /\ analysed = wanted
            /\ \A i \in 1..Len(base) : base[i].Seq.mag # <<>>
            /\ \A i, j \in 1..Len(base) :
                  base[i].Seq.mag = base[j].Seq.mag => base[i].ZN = base[j].ZN

\* C4 witness: a base built with sign 'all' that holds an entry and its
\* negation
C4_Witness ==
    /\ session # NoSession
    /\ session.sign = "all"
    /\ \E i, j \in 1..Len(session.base) :
          /\ session.base[i].Seq.neg /\ ~session.base[j].Seq.neg
          /\ session.base[i].Seq.mag = session.base[j].Seq.mag
          /\ session.base[i].ZN = session.base[j].ZN

\* C5: zero entries change no result: the tests of the object, its discarded
\* counts and, once sec_order has run, its second order tests are those of
\* the object built from the sample with its zeros taken out.
C5_ZerosChangeNothing ==
    session # NoSession =>
        LET clean  == SelectSeq(session.chosen, LAMBDA x : x.mag # <<>>)
            ref    == BenfordNew(clean, session.dtype, session.decimals, session.sign,
                                 session.confidence, session.limit_N)
            refsec == SecOrder(ref.self)
        IN  clean # <<>> =>
              /\ ref.raised = "none"
              /\ \A name \in TestNames :
                    /\ session.results[name] = ref.self.results[name]
                    /\ session.discarded[1][name] = ref.self.discarded[1][name]
              /\ \A name \in TestNames :
                    (name \o "_sec") \in DOMAIN session.results =>
                       /\ (name \o "_sec") \in DOMAIN refsec.self.results
                       /\ session.results[name \o "_sec"]
                            = refsec.self.results[name \o "_sec"]

\* the number of entries of a frame at or above the threshold of a test
ValidEntries(b, name) == Cardinality({i \in 1..Len(b) : ~BelowThreshold(b[i], name)})

\* the N a test must use: the valid entries, capped by a limit_N that is a
\* non-negative integer
EffectiveNIs(test, b, name, limit_N) ==
    /\ limit_N = None => test.N = ValidEntries(b, name)
    /\ (limit_N # None /\ limit_N[1] >= 0 /\ limit_N[1] % 2 = 0) =>
          test.N = (IF ValidEntries(b, name) <= limit_N[1] \div 2
                    THEN ValidEntries(b, name) ELSE limit_N[1] \div 2)

\* C6: the N of every test is the number of its valid entries when limit_N
\* is unset, and the lesser of that number and limit_N when limit_N is a
\* non-negative integer.
C6_EffectiveN ==
    session # NoSession =>
        \A name \in TestNames :
            /\ name \in DOMAIN session.results =>
                  EffectiveNIs(session.results[name], session.base, name, session.limit_N)
            /\ (name \o "_sec") \in DOMAIN session.results =>
                  EffectiveNIs(session.results[name \o "_sec"], session.base_sec[1],
                               name, session.limit_N)

\* C6 witness: a test of two valid entries whose N the limit 1 cut to 1
C6_Witness ==
    /\ session # NoSession
    /\ session.limit_N = <<2>>
    /\ ValidEntries(session.base, "F1D") = 2
    /\ session.results["F1D"].N = 1

\* C7: a limit_N that is no non-negative integer is rejected whatever the
\* sample size: no object is ever built with one.
C7_BadLimitRejected ==
    session # NoSession =>
        \/ session.limit_N = None
        \/ session.limit_N[1] >= 0 /\ session.limit_N[1] % 2 = 0

RECURSIVE ProductOf(_)
\* the product of the numbers of a set
ProductOf(S) ==
    IF S = {} THEN 1
    ELSE LET v == CHOOSE x \in S : TRUE IN v * ProductOf(S \ {v})

\* the product over the terms a of (a + 1) / a is 10, no term standing in
\* two rows: the factors a + 1 and a that occur above and below the line
\* cancel, and what is left above is ten times what is left below
TermsMassIsOne(terms) ==
    LET above == {a + 1 : a \in terms}
    IN  /\ Cardinality(above \ terms) <= 2 /\ Cardinality(terms \ above) <= 2
        /\ ProductOf(above \ terms) = 10 * ProductOf(terms \ above)

\* the tests of the object that are the test `name` (first and second order)
TestsNamed(name) ==
    IF session = NoSession THEN {}
    ELSE {session.results[n] : n \in {name, name \o "_sec"} \cap DOMAIN session.results}

\* C8: the Expected column of the F1D, F2D and F3D tests is indexed by the
\* integers 10^(N-1) .. 10^N - 1 (9, 90 and 900 of them), holds
\* log10(1 + 1/d) at d, and its total is 1, the product of the (d+1)/d
\* being 10.
C8_FirstDigitsExpected ==
    \A name \in {"F1D", "F2D", "F3D"} : \A test \in TestsNamed(name) :
        LET E == Expected(test)
        IN  /\ DOMAIN E = FeatureDomain[name]
            /\ Cardinality(DOMAIN E) = 9 * Pow10(DigitsNeeded[name] - 1)
            /\ \A d \in DOMAIN E : E[d] = [logs |-> {d}, num |-> 0, den |-> 1]
            /\ TermsMassIsOne(DOMAIN E)

\* C8 witness: an object whose F3D test counted an entry
C8_Witness ==
    /\ session # NoSession
    /\ session.results["F3D"].value_counts # <<>>
    /\ Cardinality(DOMAIN Expected(session.results["F3D"])) = 900

\* C9: the Expected column of the SD test has the ten rows 0..9, the row s
\* summing log10(1 + 1/n) over the nine numbers n = 10a + s, a = 1..9: each
\* n of 10..99 is a term of the row n mod 10 and of no other row.
C9_SecondDigitExpected ==
    \A test \in TestsNamed("SD") :
        LET E == Expected(test)
        IN  /\ DOMAIN E = 0..9
            /\ \A s \in DOMAIN E :
                  E[s] = [logs |-> {10 * a + s : a \in 1..9}, num |-> 0, den |-> 1]
            /\ \A n \in 10..99 : \A s \in DOMAIN E : n \in E[s].logs <=> s = n % 10
            /\ TermsMassIsOne(UNION {E[s].logs : s \in DOMAIN E})

\* C9 witness: an object whose SD test counted an entry
C9_Witness ==
    /\ session # NoSession
    /\ session.results["SD"].value_counts # <<>>
    /\ DOMAIN Expected(session.results["SD"]) = 0..9

\* the confidence levels of the module, and one that is none of them
LevelsTried ==
    {"None", "80", "85", "90", "95", "99", "99.9", "99.99", "99.999", "99.9999",
     "99.99999", "50"}

BucketsLessOne == ("F1D" :> 8) @@ ("F2D" :> 89) @@ ("F3D" :> 899) @@ ("SD" :> 9) @@ ("L2D" :> 99)

\* C10: the degrees of freedom of every test are its number of rows less
\* one (8, 89, 899, 9, 99), and for each of them and every confidence that
\* _check_confidence_ accepts, None among them, crit_chi2, KS_crit and confs
\* have an entry: no lookup raises KeyError.
C10_CriticalValuesExist ==
    /\ raised # "KeyError"
    /\ \A name \in TestNames : \A test \in TestsNamed(name) :
          /\ test.ddf = BucketsLessOne[name]
          /\ test.ddf = Cardinality(DOMAIN Counts(test)) - 1
    /\ \A c \in LevelsTried :
          ~CheckConfidenceRaises(c) =>
             /\ c \in DOMAIN confs /\ c \in DOMAIN KS_crit
             /\ \A name \in TestNames :
                   /\ BucketsLessOne[name] \in DOMAIN crit_chi2
                   /\ c \in DOMAIN crit_chi2[BucketsLessOne[name]]

\* C10 witness: an object built at confidence 95 that looked up the
\* critical chi-square of the F3D test
C10_Witness ==
    /\ session # NoSession
    /\ raised = "none"
    /\ session.confidence = "95"
    /\ Len(session.base) > 0
    /\ session.crit_vals.chi2["F3D"] = <<969865>>
    /\ session.crit_vals.KS = <<1360>>

\* the functions that take a test
TestTakers == {"mse", "second_order", "rolling_mad", "rolling_mse"}

\* C11: mse, second_order, rolling_mad and rolling_mse fail with an error
\* when the test is none of 1, 2, 3, 22, -2 and none of the names F1D, F2D,
\* F3D, SD, L2D; each name is accepted and resolved to the key whose name
\* it is, the two tables being inverse to each other.  (mad, which takes a
\* test of the first digits only, fails on those as well.)
C11_TestKindChecked ==
    /\ \A k \in {1, 2, 3, 22, -2} : rev_digs[digs_dict[k]] = k
    /\ \A t \in {"F1D", "F2D", "F3D", "SD", "L2D"} : digs_dict[rev_digs[t]] = t
    /\ (call # NoCall /\ call.op \in TestTakers \cup {"mad"}) =>
          LET test == call.args.test
              kind == IF test.type = "int" /\ test.int \in {1, 2, 3, 22, -2} THEN <<test.int>>
                      ELSE IF test.type = "str" /\ test.str = "F1D" THEN <<1>>
                      ELSE IF test.type = "str" /\ test.str = "F2D" THEN <<2>>
                      ELSE IF test.type = "str" /\ test.str = "F3D" THEN <<3>>
                      ELSE IF test.type = "str" /\ test.str = "SD" THEN <<22>>
                      ELSE IF test.type = "str" /\ test.str = "L2D" THEN <<-2>>
                      ELSE <<>>
          IN  /\ kind = <<>> => raised # "none" /\ call.ret = None
              /\ (kind # <<>> /\ raised = "none" /\ call.op \in TestTakers) =>
                    (IF call.op \in {"rolling_mad", "rolling_mse"}
                     THEN call.ret[1].test ELSE call.ret[1].df.digs) = kind[1]

\* C11 witness: second_order took the name SD and ran the second digit test
C11_Witness ==
    /\ call # NoCall
    /\ call.op = "second_order"
    /\ call.args.test = [type |-> "str", int |-> 0, str |-> "SD"]
    /\ raised = "none"
    /\ call.ret[1].df.digs = 22
    /\ call.ret[1].df.size > 0

\* the confidence levels of the module
SupportedLevels ==
    {"None", "80", "85", "90", "95", "99", "99.9", "99.99", "99.999", "99.9999",
     "99.99999"}

\* the digit tests of Source
DigitTests == {"first_digits", "second_digit", "last_two_digits"}

\* an object is never left with a confidence that is none of the levels,
\* whether by its construction or by update_confidence
ConfidenceSupported == session # NoSession => session.confidence \in SupportedLevels

\* a digit test given a confidence that is none of the levels fails
DigitTestsCheckConfidence ==
    (call # NoCall /\ call.op \in DigitTests
       /\ call.args.confidence \notin SupportedLevels) =>
          raised # "none" /\ call.ret = None

\* a call on the object that raises before it has worked anything out, as
\* update_confidence does, leaves every field of the object as it was
FailedUpdateChangesNothing ==
    (session # NoSession /\ raised' # "none" /\ computed' = {}) => session' = session

\* C12: a confidence that is none of None, 80, 85, 90, 95, 99, 99.9, 99.99,
\* 99.999, 99.9999, 99.99999 makes the construction of a Benford object,
\* update_confidence and the digit tests of Source fail with an error, and
\* an update_confidence that fails leaves the confidence and every other
\* field of the object unchanged.
C12_ConfidenceChecked ==
    /\ [](ConfidenceSupported /\ DigitTestsCheckConfidence)
    /\ [][FailedUpdateChangesNothing]_vars

\* C12 witness: update_confidence has raised on an object built at
\* confidence 95, which is still at 95
C12_Witness ==
    /\ session # NoSession
    /\ raised = "ValueError"
    /\ computed = {}
    /\ session.confidence = "95"

\* the signs of the docstrings
SignsTaken == {"all", "pos", "neg"}

\* C13: a sign that is none of 'all', 'pos', 'neg' always fails with an
\* error: no Benford object is built with it, and no function of the module
\* returns when given it.
C13_SignChecked ==
    /\ session # NoSession => session.sign \in SignsTaken
    /\ (call # NoCall /\ call.args.sign \notin SignsTaken) =>
          raised # "none" /\ session = NoSession /\ call.ret = None

\* the containers and the element types the docstrings name
ContainersTaken == {"Series", "ndarray", "(DataFrame, str)"}

ElementsTaken == {"int64", "float64"}

ValidationErrors == {"ValueError", "TypeError"}

\* C15: in no call is an argument (data type, sign, confidence, limit_N,
\* test) found wrong after digits have been extracted or a statistic worked
\* out: a call that raises the error of a check has worked nothing out.
C15_ValidationFirst == raised \in ValidationErrors => computed = {}

\* a digit test asked for every statistic, without a confidence, and with
\* data, sign, digs and limit_N it takes
AskedWithoutConfidence ==
    /\ call # NoCall
    /\ call.op \in DigitTests
    /\ call.args.confidence = "None"
    /\ call.args.flags.chi_square
    /\ call.args.flags.KS
    /\ call.args.dtype \in ElementsTaken
    /\ call.args.sign \in SignsTaken
    /\ call.args.limit_N = None
    /\ call.op = "first_digits" => call.args.digs \in {1, 2, 3}

\* C16: with no confidence, a digit test asked for the chi-square and the KS
\* returns all the same: chi_square and KS are None, not a pair of a
\* statistic and a critical value, and the frame of Counts, Found and
\* Expected, the MAD and the MSE are there as asked; with a confidence the
\* two pairs are there.
C16_NoConfidenceNoPair ==
    /\ AskedWithoutConfidence =>
          /\ raised = "none"
          /\ call.ret # None
          /\ call.ret[1].chi_square = None
          /\ call.ret[1].KS = None
          /\ {"MAD", "MSE"} \subseteq call.ret[1].attrs
          /\ call.ret[1].df.size = call.ret[1].df.N
          /\ DOMAIN call.ret[1].df.value_counts \subseteq
                DOMAIN ExpectedOf(call.ret[1].df.digs)
    /\ (call # NoCall /\ call.op \in DigitTests /\ raised = "none"
          /\ call.args.confidence # "None" /\ call.args.flags.chi_square) =>
          call.ret[1].chi_square # None /\ call.ret[1].KS # None

\* C16 witness: first_digits of a series with an entry to count, asked for
\* everything without a confidence, has returned
C16_Witness ==
    /\ AskedWithoutConfidence
    /\ call.op = "first_digits"
    /\ raised = "none"
    /\ call.ret[1].df.size > 0
    /\ call.ret[1].chi_square = None

\* the differences x[i] - x[i-1] of a sample sorted ascending that are not 0
NonzeroDifferences(sample) ==
    LET sorted == SortSeq(sample, NumLess)
    IN  SelectSeq([i \in 1..(Len(sample) - 1) |-> Minus(sorted[i + 1], sorted[i])],
                  LAMBDA d : d # V(0))

\* two sequences hold the same entries, each as many times
SameEntries(a, b) ==
    /\ Len(a) = Len(b)
    /\ \A v \in Range(a) \cup Range(b) :
          Cardinality({i \in 1..Len(a) : a[i] = v})
             = Cardinality({i \in 1..Len(b) : b[i] = v})

\* what the second order tests of a sample analyse
IsSecondOrderOf(seq, sample) ==
    /\ SameEntries(seq, NonzeroDifferences(sample))
    /\ \A i \in 1..Len(seq) : ~seq[i].nan /\ ~seq[i].neg /\ seq[i] # V(0)
    /\ Len(sample) > 0 => Len(seq) = Cardinality(Range(sample)) - 1

\* the entries of a series a sign keeps
KeptBySign(data, sign) ==
    SelectSeq(data, LAMBDA x : IF sign = "pos" THEN ~x.neg /\ x # V(0)
                               ELSE IF sign = "neg" THEN x.neg
                               ELSE x # V(0))

\* C17: the entries the second order tests analyse are the differences
\* x[i] - x[i-1] of the sample sorted ascending that are not 0: all are
\* above 0, there is one less of them than the sample has distinct values,
\* and the difference the lowest entry has not is not among them.  The
\* sample is what sec_order() subtracts (the entries the object chose) and
\* what second_order(...) subtracts (the entries the sign keeps).
C17_SecondOrderSequence ==
    /\ (session # NoSession /\ session.sign \in SignsTaken
          /\ session.base_sec # None) =>
          IsSecondOrderOf([i \in 1..Len(session.base_sec[1]) |->
                              session.base_sec[1][i].Seq],
                          session.chosen)
    /\ (call # NoCall /\ call.op = "second_order" /\ raised = "none") =>
          IsSecondOrderOf([i \in 1..Len(call.ret[1].source) |->
                              call.ret[1].source[i].Seq],
                          KeptBySign(call.args.data, call.args.sign))

\* the summation tests of the object, by the number of digits
SummOfDigits == [N \in {1, 2, 3} |-> digs_dict[N] \o "_Summ"]

\* the sum of the magnitudes a function takes on a finite set of keys
RECURSIVE MagSumOver(_, _)
MagSumOver(f, keys) ==
    IF keys = {} THEN <<>>
    ELSE LET k == CHOOSE x \in keys : TRUE
         IN  MagAdd(f[k], MagSumOver(f, keys \ {k}))

\* the shares of a summation test are the sums of its groups over the sum
\* of them all, and its deviations are measured from 1 / (9 * 10^(N-1))
SharesAgainstUniform(summ, N) ==
    /\ \A k \in DOMAIN summ.Percent :
          summ.Percent[k] = <<summ.Sum[k], MagSumOver(summ.Sum, DOMAIN summ.Sum)>>
    /\ summ.Expected = <<1, 9 * (IF N = 1 THEN 1 ELSE IF N = 2 THEN 10 ELSE 100)>>

\* C18: in the summation test of the first N digits, N in 1, 2, 3, the
\* share of a group is the sum of its absolute values over the total, and
\* the deviation of every group is measured from 1 / (9 * 10^(N-1)),
\* however many groups the sample has.
C18_SummationUniform ==
    /\ (session # NoSession /\ session.summs # <<>>) =>
          \A N \in {1, 2, 3} : SharesAgainstUniform(session.summs[SummOfDigits[N]], N)
    /\ (call # NoCall /\ call.op = "mad_summ" /\ raised = "none") =>
          SharesAgainstUniform(call.ret[1], call.args.test)

\* the groups of a summation test of the first N digits of the rows: the
\* keys are first N digits, of N places, and the sum of a group is that of
\* the absolute values of the rows whose ZN has N digits or more and begins
\* with the key
GroupsOfValid(summ, N, rows) ==
    LET valid(r) == Len(r.ZN) >= N
        key(r)   == ToNat(SubSeq(r.ZN, 1, N))
    IN  /\ DOMAIN summ.Sum = {key(rows[i]) : i \in {j \in 1..Len(rows) : valid(rows[j])}}
        /\ \A k \in DOMAIN summ.Sum :
              /\ k \in (IF N = 1 THEN 1..9 ELSE IF N = 2 THEN 10..99 ELSE 100..999)
              /\ LET of == SelectSeq(rows, LAMBDA r : valid(r) /\ key(r) = k)
                 IN  summ.Sum[k] = SumMags([i \in 1..Len(of) |-> of[i].Seq.mag])

\* C19: the entries whose ZN is below 10^(N-1) are left out of the
\* summation test of the first N digits: every key of the test is one of
\* 10^(N-1) .. 10^N - 1, and an entry left out adds to the sum of no group,
\* not to that of the digit 1 either.
C19_SummationValidOnly ==
    /\ (session # NoSession /\ session.summs # <<>>) =>
          \A N \in {1, 2, 3} :
             GroupsOfValid(session.summs[SummOfDigits[N]], N, session.base)
    /\ (call # NoCall /\ call.op = "mad_summ" /\ raised = "none") =>
          \A k \in DOMAIN call.ret[1].Sum :
             k \in (IF call.args.test = 1 THEN 1..9
                    ELSE IF call.args.test = 2 THEN 10..99 ELSE 100..999)

\* how many times a value stands in a series
Occurrences(data, v) == Cardinality({i \in 1..Len(data) : data[i] = v})

\* C20: the duplicates test returns the values that stand twice or more in
\* the data, each once with the number of times it stands there, the larger
\* numbers first; a value that stands once is not returned, and 5 and -5 are
\* two values.  Of [5, 5, 5, 3, 3, 7]: 5 with 3, then 3 with 2, and no 7.
C20_DuplicatesCounted ==
    (call # NoCall /\ call.op \in {"duplicates", "Source.duplicates"}
       /\ call.args.top_Rep \in {"int", "None"}
       /\ (call.op = "Source.duplicates" =>
              call.args.dtype \in ElementsTaken /\ call.args.sign \in SignsTaken)) =>
          /\ raised = "none"
          /\ call.ret # None
          /\ LET data == call.args.data
                 got  == call.ret[1].dup_count
             IN  /\ {got[i][1] : i \in 1..Len(got)}
                       = {v \in Range(data) : Occurrences(data, v) >= 2}
                 /\ \A i, j \in 1..Len(got) : i # j => got[i][1] # got[j][1]
                 /\ \A i \in 1..Len(got) : got[i][2] = Occurrences(data, got[i][1])
                 /\ \A i \in 1..(Len(got) - 1) : got[i][2] >= got[i + 1][2]
                 /\ data = <<V(5), V(5), V(5), V(3), V(3), V(7)>> =>
                       got = << <<V(5), 3>>, <<V(3), 2>> >>

\* the rolling statistics
Rollings == {"rolling_mad", "rolling_mse"}

\* the tests by their keys and their names
TestsTaken ==
    {[type |-> "int", int |-> n, str |-> ""] : n \in {1, 2, 3, 22, -2}}
    \cup {[type |-> "str", int |-> 0, str |-> t] : t \in {"F1D", "F2D", "F3D", "SD", "L2D"}}

\* a rolling statistic called with a test, data and a sign it takes
RollingAsked ==
    /\ call # NoCall
    /\ call.op \in Rollings
    /\ call.args.test \in TestsTaken
    /\ call.args.dtype \in ElementsTaken
    /\ call.args.sign \in SignsTaken

\* C21: rolling_mad and rolling_mse with window W over the L entries the
\* sign keeps, W <= L, return L - W + 1 values, one for each run of W
\* entries in the order of the series (for the first digits of integers:
\* the k-th value counts the first digits of the k-th to the (k+W-1)-th
\* entry), and each is a statistic of proportions that lie in [0, 1] and add
\* up to 1 at most, so within [0, 1].
C21_RollingLength ==
    (RollingAsked
       /\ call.args.window <= Len(KeptBySign(call.args.data, call.args.sign))) =>
          LET kept == KeptBySign(call.args.data, call.args.sign)
              W    == call.args.window
          IN  /\ raised = "none"
              /\ call.ret # None
              /\ Len(call.ret[1].rolled) = Len(kept) - W + 1
              /\ \A k \in 1..Len(call.ret[1].rolled) :
                    LET got == call.ret[1].rolled[k]
                    IN  /\ got.size = W
                        /\ \A v \in DOMAIN got.value_counts :
                              got.value_counts[v] \in 0..W
                        /\ SumOver(got.value_counts, DOMAIN got.value_counts) <= W
                        /\ (call.ret[1].test = 1 /\ call.args.dtype = "int64") =>
                              \A d \in 1..9 :
                                 Cardinality({i \in k..(k + W - 1) : kept[i].mag[1] = d})
                                    = (IF d \in DOMAIN got.value_counts
                                       THEN got.value_counts[d] ELSE 0)

\* the significant digits of an entry: its digits without the zeros at
\* their end, which is what a power of ten as a factor leaves alone
SignificantDigits(mag) ==
    LET last == CHOOSE k \in 0..Len(mag) :
                   /\ k > 0 => mag[k] # 0
                   /\ \A j \in (k + 1)..Len(mag) : mag[j] = 0
    IN  SubSeq(mag, 1, last)

\* C22: the mantissa of every entry that is not 0 is log10(|value|) mod 1:
\* the fractional part f of the logarithm of its significant digits, which
\* is in [0, 1) and is the same for the entry times any power of ten, below
\* 1 as well as above (never 1 - f).
C22_MantissaIsFractionalPart ==
    (call # NoCall /\ call.op = "Mantissas" /\ raised = "none") =>
       LET kept == SelectSeq(call.args.data, LAMBDA x : ~x.nan /\ x.mag # <<>>)
           got  == call.ret[1].mantissas
       IN  /\ Len(got) = Len(kept)
           /\ \A i \in 1..Len(got) :
                 /\ got[i].sig = SignificantDigits(kept[i].mag)
                 /\ ~got[i].complement

\* C23: in every state of a Benford object, after its construction and
\* after any calls of update_confidence, sec_order and summation, the
\* critical values it holds (Z, KS, and the chi-square of each test) are
\* those of the tables at the confidence it holds now.
C23_CriticalValuesCurrent ==
    session # NoSession =>
       /\ session.crit_vals.Z = confs[session.confidence]
       /\ session.crit_vals.KS = KS_crit[session.confidence]
       /\ \A name \in DOMAIN session.crit_vals.chi2 :
             session.crit_vals.chi2[name]
                = crit_chi2[BucketsLessOne[name]][session.confidence]

\* the order of the confidence levels
LevelsAscending ==
    <<"80", "85", "90", "95", "99", "99.9", "99.99", "99.999", "99.9999", "99.99999">>

\* the levels below a level
LevelsBelow(c) ==
    {LevelsAscending[i] : i \in {j \in 1..Len(LevelsAscending) :
        \E k \in (j + 1)..Len(LevelsAscending) : LevelsAscending[k] = c}}

\* C29: in each table of critical values (Z, KS, and chi-square at 8, 9, 89,
\* 99 and 899 degrees of freedom) the critical value is strictly larger at
\* each larger confidence, 80 < 85 < 90 < 95 < 99 < 99.9 < 99.99 < 99.999 <
\* 99.9999 < 99.99999: the critical values a digit test holds at its
\* confidence are above those of the tables at every level below it.
C29_CriticalValuesIncrease ==
    (call # NoCall /\ call.op \in DigitTests /\ raised = "none"
       /\ call.args.flags.chi_square /\ call.args.confidence # "None") =>
          \A l \in LevelsBelow(call.args.confidence) :
             /\ confs[l][1] < confs[call.args.confidence][1]
             /\ KS_crit[l][1] < call.ret[1].KS[1]
             /\ \A ddf \in {8, 9, 89, 99, 899} :
                   crit_chi2[ddf][l][1] < crit_chi2[ddf][call.args.confidence][1]
             /\ crit_chi2[DdfOf(call.ret[1].df)][l][1] < call.ret[1].chi_square[1]

\* what sec_order and summation leave alone in a step: the sample, the
\* configuration but the confidence, the base, the five primary results and
\* their discarded counts; and the results there are stay
KeepsSampleAndPrimaryResults ==
    /\ session' # NoSession
    /\ session'.chosen = session.chosen /\ session'.dtype = session.dtype
    /\ session'.decimals = session.decimals /\ session'.sign = session.sign
    /\ session'.limit_N = session.limit_N
    /\ session'.base = session.base
    /\ session'.discarded = session.discarded
    /\ \A name \in Range(DigsNames) : session'.results[name] = session.results[name]
    /\ DOMAIN session.results \subseteq DOMAIN session'.results
    /\ DOMAIN session.summs \subseteq DOMAIN session'.summs

\* a step that changes the confidence changes nothing else
ConfidenceChangesAlone ==
    session'.confidence # session.confidence =>
       session' = [session EXCEPT !.confidence = session'.confidence]

\* C24: once constructed, a Benford object keeps its sample, its decimals,
\* sign and limit_N, its base, its five primary results and their discarded
\* counts in every step; sec_order and summation add their own results and
\* keep the confidence; the one other method that changes a field is
\* update_confidence, which changes the confidence and nothing else.
C24_SessionFrame ==
    [][session # NoSession =>
          KeepsSampleAndPrimaryResults /\ ConfidenceChangesAlone]_vars

\* C24 as stated: the confidence is left unchanged too, by every method
C24_OnlySecOrderAndSummationChange ==
    [][session # NoSession =>
          /\ KeepsSampleAndPrimaryResults
          /\ session'.confidence = session.confidence]_vars

\* a session with second order and summation results whose confidence is no
\* longer the one it was constructed with
C24_Witness ==
    /\ session # NoSession /\ raised = "none"
    /\ Range(SecNames) \subseteq DOMAIN session.results
    /\ Range(SummNames) \subseteq DOMAIN session.summs
    /\ session.confidence # call.args.confidence

\* columns are those of a result table at a confidence
ExposesResultColumns(columns, confidence) ==
    /\ {"Counts", "Found", "Expected", "AbsDif"} \subseteq columns
    /\ "Z_score" \in columns <=> confidence # "None"

\* C25: the frame of every test of a Benford object, and the frame that
\* first_digits, second_digit or last_two_digits returns, has the columns
\* Counts, Found, Expected and AbsDif, and has the column Z_score exactly
\* when the confidence is not None.
C25_ResultColumns ==
    /\ session # NoSession =>
          \A name \in DOMAIN session.results :
             ExposesResultColumns(TestColumns, session.confidence)
    /\ (call # NoCall /\ call.op \in DigitTests /\ raised = "none"
          /\ ~call.args.flags.simple) =>
          /\ ReturnedColumns(call.args.confidence)
                \subseteq PrepColumns(FALSE, call.args.confidence)
          /\ ExposesResultColumns(ReturnedColumns(call.args.confidence),
                                  call.args.confidence)

\* the feature of a test as the decimal string of ZN has it
FeatureOfString(zn, name) ==
    IF name \in {"F1D", "F2D", "F3D"} THEN LeadingDigits(zn, DigitsNeeded[name])
    ELSE IF name = "SD" THEN zn[2]
    ELSE 10 * zn[Len(zn) - 1] + zn[Len(zn)]

\* test is the table of the rows (each with its ZN) for the test of a name:
\* a row for each value of the domain, the entries counted and their shares,
\* which add up to 1 (the counts add up to what they are divided by)
IsTableOf(test, rows, name) ==
    LET valid    == {i \in 1..Len(rows) : ~BelowThreshold(rows[i], name)}
        with(v)  == {i \in valid : FeatureOfString(rows[i].ZN, name) = v}
        counts   == Counts(test)
        found    == Found(test)
    IN  /\ DOMAIN counts = FeatureDomain[name]
        /\ DOMAIN found = FeatureDomain[name]
        /\ \A v \in FeatureDomain[name] :
              /\ counts[v] = Cardinality(with(v))
              /\ found[v] = IF with(v) = {} THEN <<0, 1>>
                            ELSE <<Cardinality(with(v)), Cardinality(valid)>>
        /\ valid # {} =>
              /\ test.size = Cardinality(valid)
              /\ SumOver(counts, DOMAIN test.value_counts) = test.size

\* C26: the table of a test has one row for each value of the domain of its
\* feature; Counts at v is the number of entries at or above the threshold
\* whose feature is v, 0 where there is none, and Found at v is that count
\* over the number of entries at or above the threshold, so that Found adds
\* up to 1 when there is such an entry.
C26_CountsAndFound ==
    /\ session # NoSession =>
          \A name \in TestNames :
             IsTableOf(session.results[name], session.base, name)
    /\ (call # NoCall /\ call.op \in DigitTests /\ raised = "none") =>
          IsTableOf(call.ret[1].df,
                    SourceNew(call.args.data, call.args.dtype, call.args.decimals,
                              call.args.sign, FALSE).self,
                    digs_dict[call.ret[1].df.digs])

\* rolled is what windows of W rows give over the rows at or above the
\* threshold of the test of a name, and over no other row
RollsOverValid(rolled, rows, name, W) ==
    LET valid == SelectSeq(rows, LAMBDA r : ~BelowThreshold(r, name))
    IN  /\ Len(rolled) = (IF Len(valid) >= W THEN Len(valid) - W + 1 ELSE 0)
        /\ \A k \in 1..Len(rolled) :
              \A v \in DOMAIN rolled[k].value_counts :
                 rolled[k].value_counts[v]
                    = Cardinality({i \in k..(k + W - 1) :
                         i <= Len(valid) /\ FeatureOfString(valid[i].ZN, name) = v})

\* C27: the values of rolling_mad and rolling_mse, for each of the five
\* tests, are those of the windows over the entries whose ZN is at or above
\* the threshold of the test: an entry below it is counted in no window and
\* takes no place in a window.
C27_RollingOverValidOnly ==
    (RollingAsked /\ raised = "none" /\ call.ret # None) =>
       RollsOverValid(call.ret[1].rolled,
                      SourceNew(call.args.data, call.args.dtype, call.args.decimals,
                                call.args.sign, FALSE).self,
                      digs_dict[call.ret[1].test], call.args.window)

\* how often a name is in the list of tests of the session
TimesNamed(name) ==
    Cardinality({i \in 1..Len(session.tests) : session.tests[i] = name})

\* C28: whatever calls of sec_order and summation were made, the list of
\* tests of a Benford object names no test twice, every name of the list is
\* the attribute of a stored result, and every stored result, primary,
\* '_sec' or '_Summ', is named in the list once.
C28_TestsNameResults ==
    session # NoSession =>
       LET stored == DOMAIN session.results \cup DOMAIN session.summs
       IN  /\ \A i, j \in 1..Len(session.tests) :
                 session.tests[i] = session.tests[j] => i = j
           /\ Range(session.tests) \subseteq stored
           /\ \A name \in stored : TimesNamed(name) = 1

\* the test a digit test of Source was called for
TestCalled ==
    IF call.op = "first_digits" THEN call.args.digs
    ELSE IF call.op = "second_digit" THEN 22 ELSE -2

\* a digit test was called that works out Z scores, on entries of which one
\* at least is valid for the test, with a limit_N that _set_N_ lets through
ZScoresOfValidEntries ==
    /\ call # NoCall /\ call.op \in DigitTests
    /\ ~CheckConfidenceRaises(call.args.confidence)
    /\ call.op = "first_digits" => ~CheckDigsRaises(call.args.digs)
    /\ PrepHasZ(call.args.flags.simple, call.args.confidence)
    /\ LET source == SourceNew(call.args.data, call.args.dtype, call.args.decimals,
                               call.args.sign, FALSE)
       IN  /\ source.raised = "none"
           /\ LET col == TempColumn(source.self, TestCalled)
              IN  Len(col) >= 1 /\ ~SetNRaises(Len(col), call.args.limit_N)

\* C30: when a test has a valid entry and limit_N passes the check of
\* _set_N_, the N the Z scores divide by is 1 or more: no Z score is worked
\* out with a zero divisor, in a digit test or in a test of a Benford object.
C30_DivisorAtLeastOne ==
    /\ ZScoresOfValidEntries =>
          /\ raised # "ZeroDivisionError"
          /\ raised = "none" => call.ret[1].df.N >= 1
    /\ session # NoSession =>
          \A name \in DOMAIN session.results :
             session.results[name].size >= 1 => session.results[name].N >= 1

====
